---- MODULE Spec2Model ----
(***************************************************************************)
(* BlockTalk: the on-ledger messenger (BlockTalkMessenger.sol) and the     *)
(* client paths that register keys, send and load conversations            *)
(* (encryption.ts, contract.ts, MessagingInterface.tsx,                    *)
(* RegistrationFlow.tsx).                                                  *)
(***************************************************************************)
EXTENDS Integers, Sequences, FiniteSets, TLC

(***************************************************************************)
(* Bounds and input sets                                                   *)
(***************************************************************************)
\* cap on messageCounter: a send is not offered once it is reached
MaxMessages == 2
\* block.timestamp runs over 0..MaxTime
MaxTime == 1
\* cap on the PublicKeyRegistered entries of the log: a registration is not
\* offered once it is reached
MaxRegistrations == 3

\* addresses by numeric value, as the test suite names them
Deployer == 1
Alice == 2
Bob == 3
Charlie == 4
Accounts == {Alice, Bob, Charlie}
\* the test contract, BlockTalkMessengerTest: an account with code and
\* neither a receive nor a fallback function
TestContract == 5
ZeroAddress == 0
Addresses == Accounts \cup {ZeroAddress}
\* accounts that issue sends; Charlie registers and reads
Senders == {Alice, Bob}
\* recipients named in direct sends: the senders and the zero address
Recipients == Senders \cup {ZeroAddress}
\* callers of the message reads: a party of the messages and an outsider
Readers == {Alice, Charlie}
\* callers of the owner-only functions
AdminCallers == {Deployer, Alice}
\* accounts ownership is transferred to
NewOwners == {ZeroAddress, Deployer, Alice}

\* fee amounts and attached values, in units of the test's 0.001 ether
Fees == {0, 1}
Values == {0, 1}
InitialFee == 1
\* ether dealt to each account, in the same units (vm.deal(alice, 1 ether))
Funds == 1000
\* (makePermanent, value) of the sends issued by direct calls
SendArgs == {<<FALSE, 0>>, <<TRUE, 0>>, <<TRUE, 1>>}

(***************************************************************************)
(* Byte strings                                                            *)
(***************************************************************************)
\* width of a bytes32 record and of the derived key material
KeyBytes == 32
HexChars == 64
HalfKey == 16

Bytes32Zero == [i \in 1..KeyBytes |-> 0]
\* key material of the test suite, keccak256("alice_public_key")
TestKey == [i \in 1..KeyBytes |-> i]
\* key material passed to a direct registerPublicKey call
DirectKeys == {Bytes32Zero, TestKey}

\* message contents: a string; the fields say what JSON.parse finds in it
TextContent(text) == [fmt |-> "text", iv |-> 0, key |-> <<>>, pt |-> text]
\* contents passed to a direct sendMessage call
DirectContents == {TextContent("encrypted_message")}

(***************************************************************************)
(* State                                                                   *)
(***************************************************************************)
VARIABLES
    owner,                  \* Ownable owner slot
    handovers,              \* Ownable handover slots: the accounts with a
                            \* request pending
    messagingPublicKeys,    \* mapping(address => bytes32)
    permanentMessages,      \* mapping(bytes32 => Message), the written slots
    userPermanentMessages,  \* mapping(address => bytes32[])
    messageCounter,         \* uint256
    permanentMessageFee,    \* uint256
    balance,                \* address(this).balance
    events,                 \* the contract's log: PublicKeyRegistered,
                            \* ConversationMessage, PermanentMessageStored
    now,                    \* block.timestamp
    ret,                    \* outcome of the last call: op, err
    view,                   \* each account's MessagingInterface state: the
                            \* selected contact, the messages shown and the
                            \* contact they were loaded for, loading, sending,
                            \* rpcError
    wallets,                \* ether held by each account, in fee units
    cipher,                 \* a cipher run: its inputs, payload and output
    io,                     \* requests of the last client handler: to the wallet
                            \* (personal_sign) and to the read endpoints, and
                            \* what the conversation query returned
    inflight,               \* the handler calls begun and not finished: the
                            \* loadMessages calls scheduled or awaiting, the
                            \* handleSendMessage and handleRegister calls
                            \* awaiting, and the transactions submitted and
                            \* not yet mined
    keyring                 \* what deriveEncryptionKeys yields for each account
                            \* and wallet behaviour: the requests, the signature
                            \* and the key material; a function of the wallet's
                            \* signature, the same throughout a behaviour

vars == <<owner, handovers, messagingPublicKeys, permanentMessages, userPermanentMessages,
          messageCounter, permanentMessageFee, balance, events, now, ret, view,
          wallets, cipher, io, inflight, keyring>>

ledger == <<owner, handovers, messagingPublicKeys, permanentMessages, userPermanentMessages,
            messageCounter, permanentMessageFee, balance, events>>

(***************************************************************************)
(* Hashing.  keccak256 is taken collision free: the digest of a packed     *)
(* byte string is represented by the tagged packed fields themselves.      *)
(***************************************************************************)
Keccak256(packed) == <<"keccak256", packed>>

\* variant: the counter is left out of the packed fields
MessageIdWithoutCounter(sender, recipient, content, timestamp, counter) ==
    Keccak256(<<sender, recipient, content, timestamp>>)

\* abi.encodePacked(msg.sender, _recipient, _encryptedContent,
\*                  block.timestamp, messageCounter++)
MessageIdOf(sender, recipient, content, timestamp, counter) ==
    Keccak256(<<sender, recipient, content, timestamp, counter>>)

\* variant: the pair is hashed in call order
ConversationHashUnordered(sender, recipient) == Keccak256(<<sender, recipient>>)

\* _recipient < msg.sender ? keccak256(recipient, sender)
\*                         : keccak256(sender, recipient)
ConversationHashOf(sender, recipient) ==
    IF recipient < sender
    THEN Keccak256(<<recipient, sender>>)
    ELSE Keccak256(<<sender, recipient>>)

(***************************************************************************)
(* Message storage                                                         *)
(***************************************************************************)
\* an unwritten storage slot reads as the zero struct
ZeroMessage ==
    [sender |-> ZeroAddress, recipient |-> ZeroAddress,
     encryptedContent |-> TextContent(""), timestamp |-> 0, isPermanent |-> FALSE]

MessageAt(store, id) == IF id \in DOMAIN store THEN store[id] ELSE ZeroMessage

NoId == Keccak256(<<>>)

Ret(op, err) == [op |-> op, err |-> err]

(***************************************************************************)
(* registerPublicKey                                                       *)
(***************************************************************************)
\* variant: a record once written is kept
RegisterKeyOnce(registry, caller, publicKey) ==
    IF registry[caller] = Bytes32Zero
    THEN [registry EXCEPT ![caller] = publicKey]
    ELSE registry

\* variant: the key is written to every account's record
RegisterKeyForAll(registry, caller, publicKey) == [a \in DOMAIN registry |-> publicKey]

\* messagingPublicKeys[msg.sender] = _publicKey
RegisterKey(registry, caller, publicKey) == [registry EXCEPT ![caller] = publicKey]

\* getPublicKey
PublicKeyOf(registry, user) == registry[user]

\* isRegistered
IsRegistered(a) == messagingPublicKeys[a] # Bytes32Zero

\* event PublicKeyRegistered(address indexed user, bytes32 publicKey)
PublicKeyRegistered(user, publicKey) ==
    [name |-> "PublicKeyRegistered", user |-> user, publicKey |-> publicKey]

\* the registrations logged so far
Registrations(log) == SelectSeq(log, LAMBDA e : e.name = "PublicKeyRegistered")

\* a registerPublicKey transaction applied to the ledger
RegisterPublicKeyApplied(caller, publicKey) ==
    /\ Len(Registrations(events)) < MaxRegistrations
    /\ messagingPublicKeys' = RegisterKey(messagingPublicKeys, caller, publicKey)
    /\ events' = Append(events, PublicKeyRegistered(caller, publicKey))

RegisterPublicKey(caller, publicKey) ==
    /\ RegisterPublicKeyApplied(caller, publicKey)
    /\ ret' = Ret("registerPublicKey", "ok")
    /\ UNCHANGED <<owner, handovers, permanentMessages, userPermanentMessages, messageCounter,
                   permanentMessageFee, balance, now, keyring, view, wallets, cipher, inflight, io>>

(***************************************************************************)
(* sendMessage                                                             *)
(***************************************************************************)
\* variant: the sender check is skipped
SenderCheckSkipped(sender) == FALSE

SenderNotRegistered(sender) == messagingPublicKeys[sender] = Bytes32Zero

\* variant: the recipient check is skipped
RecipientCheckSkipped(recipient) == FALSE

RecipientNotRegistered(recipient) == messagingPublicKeys[recipient] = Bytes32Zero

\* variant: the fee comparison is off by one
InsufficientFeeOffByOne(makePermanent, value) == makePermanent /\ value + 1 < permanentMessageFee

InsufficientFee(makePermanent, value) == makePermanent /\ value < permanentMessageFee

\* variant: the fee is checked before the registrations
FeeCheckedFirst(sender, recipient, makePermanent, value) ==
    IF InsufficientFee(makePermanent, value) THEN "InsufficientFee"
    ELSE IF SenderNotRegistered(sender) THEN "NotRegistered"
    ELSE IF RecipientNotRegistered(recipient) THEN "RecipientNotRegistered"
    ELSE "ok"

SendMessageError(sender, recipient, makePermanent, value) ==
    IF SenderNotRegistered(sender) THEN "NotRegistered"
    ELSE IF RecipientNotRegistered(recipient) THEN "RecipientNotRegistered"
    ELSE IF InsufficientFee(makePermanent, value) THEN "InsufficientFee"
    ELSE "ok"

ConversationMessage(sender, recipient, content, makePermanent, id) ==
    [name |-> "ConversationMessage",
     conversationHash |-> ConversationHashOf(sender, recipient),
     sender |-> sender, recipient |-> recipient, encryptedContent |-> content,
     timestamp |-> now, isPermanent |-> makePermanent, messageId |-> id]

PermanentMessageStored(sender, recipient, id) ==
    [name |-> "PermanentMessageStored",
     conversationHash |-> NoId,
     sender |-> sender, recipient |-> recipient, encryptedContent |-> TextContent(""),
     timestamp |-> 0, isPermanent |-> TRUE, messageId |-> id]

\* the Message written under messageId
StoredMessage(sender, recipient, content) ==
    [sender |-> sender, recipient |-> recipient, encryptedContent |-> content,
     timestamp |-> now, isPermanent |-> TRUE]

\* variant: the write drops the records written before
StoreOnlyLatest(store, id, message) == [k \in {id} |-> message]

StoreMessage(store, id, message) ==
    [k \in DOMAIN store \cup {id} |-> IF k = id THEN message ELSE store[k]]

\* variant: only the sender's list is extended
PushSenderOnly(lists, sender, recipient, id) == [lists EXCEPT ![sender] = Append(@, id)]

\* variant: the id is put at the front of both lists
PushAtFront(lists, sender, recipient, id) ==
    LET first == [lists EXCEPT ![sender] = <<id>> \o @]
    IN  [first EXCEPT ![recipient] = <<id>> \o @]

\* variant: only the recipient's list is extended
PushRecipientOnly(lists, sender, recipient, id) == [lists EXCEPT ![recipient] = Append(@, id)]

\* userPermanentMessages[msg.sender].push(id); userPermanentMessages[_recipient].push(id)
PushBoth(lists, sender, recipient, id) ==
    LET first == [lists EXCEPT ![sender] = Append(@, id)]
    IN  [first EXCEPT ![recipient] = Append(@, id)]

\* variant: the counter is left as it is
CounterKept(counter) == counter

\* messageCounter++
Incremented(counter) == counter + 1

\* The state a sendMessage call leaves and its outcome; a revert leaves
\* every field as it was.
SendMessageCall(sender, recipient, content, makePermanent, value) ==
    LET err == SendMessageError(sender, recipient, makePermanent, value)
        id == MessageIdOf(sender, recipient, content, now, messageCounter)
        msgEvent == ConversationMessage(sender, recipient, content, makePermanent, id)
    IN  IF err # "ok"
        THEN [err |-> err, messageCounter |-> messageCounter, events |-> events,
              permanentMessages |-> permanentMessages,
              userPermanentMessages |-> userPermanentMessages, balance |-> balance,
              wallets |-> wallets]
        ELSE [err |-> "ok",
              messageCounter |-> Incremented(messageCounter),
              events |-> IF makePermanent
                         THEN events \o <<msgEvent, PermanentMessageStored(sender, recipient, id)>>
                         ELSE Append(events, msgEvent),
              permanentMessages |->
                  IF makePermanent
                  THEN StoreMessage(permanentMessages, id, StoredMessage(sender, recipient, content))
                  ELSE permanentMessages,
              userPermanentMessages |->
                  IF makePermanent
                  THEN PushBoth(userPermanentMessages, sender, recipient, id)
                  ELSE userPermanentMessages,
              balance |-> balance + value,
              wallets |-> [wallets EXCEPT ![sender] = @ - value]]

\* a sendMessage transaction applied to the ledger
SendMessageApplied(sender, recipient, content, makePermanent, value) ==
    LET r == SendMessageCall(sender, recipient, content, makePermanent, value)
    IN  /\ messageCounter < MaxMessages
        /\ wallets[sender] >= value
        /\ messageCounter' = r.messageCounter
        /\ events' = r.events
        /\ permanentMessages' = r.permanentMessages
        /\ userPermanentMessages' = r.userPermanentMessages
        /\ balance' = r.balance
        /\ wallets' = r.wallets
        /\ ret' = Ret("sendMessage", r.err)
        /\ UNCHANGED <<owner, handovers, messagingPublicKeys, permanentMessageFee, now, keyring, view, cipher, io>>

\* sendMessage called directly: submitted and applied in one step
SendMessage(sender, recipient, content, makePermanent, value) ==
    /\ SendMessageApplied(sender, recipient, content, makePermanent, value)
    /\ UNCHANGED inflight

(***************************************************************************)
(* Reads                                                                   *)
(***************************************************************************)
\* variant: every caller passes the participant check
AnyCallerParticipant(caller, message) == TRUE

IsParticipant(caller, message) ==
    caller = message.sender \/ caller = message.recipient

\* variant: every slot counts as written
FoundAlways(message) == FALSE

\* message.sender == address(0)
NotFound(message) == message.sender = ZeroAddress

GetMessageCall(caller, id) ==
    LET message == MessageAt(permanentMessages, id)
    IN  IF NotFound(message)
        THEN [err |-> "MessageNotFound", out |-> ZeroMessage]
        ELSE IF ~IsParticipant(caller, message)
        THEN [err |-> "UnauthorizedAccess", out |-> ZeroMessage]
        ELSE [err |-> "ok", out |-> message]

GetMessage(caller, id) ==
    LET r == GetMessageCall(caller, id)
    IN  /\ ret' = Ret("getMessage", r.err)
        /\ UNCHANGED <<ledger, now, keyring, view, wallets, cipher, inflight, io>>

\* the getter Solidity generates for `mapping(bytes32 => Message) public`
PermanentMessagesGetterCall(caller, id) ==
    [err |-> "ok", out |-> MessageAt(permanentMessages, id)]

PermanentMessagesGetter(caller, id) ==
    LET r == PermanentMessagesGetterCall(caller, id)
    IN  /\ ret' = Ret("permanentMessages", r.err)
        /\ UNCHANGED <<ledger, now, keyring, view, wallets, cipher, inflight, io>>

GetUserPermanentMessagesCall(user) ==
    [err |-> "ok", out |-> userPermanentMessages[user]]

GetUserPermanentMessages(user) ==
    LET r == GetUserPermanentMessagesCall(user)
    IN  /\ ret' = Ret("getUserPermanentMessages", r.err)
        /\ UNCHANGED <<ledger, now, keyring, view, wallets, cipher, inflight, io>>

\* ids a caller can name: those written so far, those of the logged events
\* and one that was never emitted
KnownIds ==
    DOMAIN permanentMessages
    \cup {events[i].messageId : i \in {j \in 1..Len(events) : events[j].name # "PublicKeyRegistered"}}
    \cup {NoId}

(***************************************************************************)
(* Administration                                                          *)
(***************************************************************************)
\* _initializeOwner(msg.sender) stores the owner unguarded
Initialize(caller, fee) ==
    /\ owner' = caller
    /\ permanentMessageFee' = fee
    /\ ret' = Ret("initialize", "ok")
    /\ UNCHANGED <<handovers, messagingPublicKeys, permanentMessages, userPermanentMessages,
                   messageCounter, balance, events, now, keyring, view, wallets, cipher, inflight, io>>

\* variant: the owner check passes for every caller
AnyCallerOwner(caller) == TRUE

\* the onlyOwner modifier
OnlyOwner(caller) == caller = owner

SetPermanentMessageFeeCall(caller, newFee) ==
    IF OnlyOwner(caller)
    THEN [err |-> "ok", permanentMessageFee |-> newFee]
    ELSE [err |-> "Unauthorized", permanentMessageFee |-> permanentMessageFee]

SetPermanentMessageFee(caller, newFee) ==
    LET r == SetPermanentMessageFeeCall(caller, newFee)
    IN  /\ permanentMessageFee' = r.permanentMessageFee
        /\ ret' = Ret("setPermanentMessageFee", r.err)
        /\ UNCHANGED <<owner, handovers, messagingPublicKeys, permanentMessages, userPermanentMessages,
                       messageCounter, balance, events, now, keyring, view, wallets, cipher, inflight, io>>

\* a plain call with ether and empty calldata succeeds at an address
\* without code and fails at a contract with no receive or fallback function
AcceptsEther(to) == to # TestContract

\* variant: the withdrawal leaves one unit behind
PayOwnerShort(to, amount) ==
    IF AcceptsEther(to)
    THEN [success |-> TRUE, balance |-> IF amount > 0 THEN 1 ELSE 0,
          wallets |-> [wallets EXCEPT ![to] = @ + (IF amount > 0 THEN amount - 1 ELSE 0)]]
    ELSE [success |-> FALSE, balance |-> balance, wallets |-> wallets]

\* (bool success, ) = payable(owner()).call{value: address(this).balance}("")
PayOwner(to, amount) ==
    IF AcceptsEther(to)
    THEN [success |-> TRUE, balance |-> balance - amount,
          wallets |-> [wallets EXCEPT ![to] = @ + amount]]
    ELSE [success |-> FALSE, balance |-> balance, wallets |-> wallets]

\* withdrawFees: onlyOwner, the call to owner(), require(success, "Transfer
\* failed"); a revert leaves the state as it was
WithdrawFeesCall(caller) ==
    IF OnlyOwner(caller)
    THEN LET paid == PayOwner(owner, balance)
         IN  IF paid.success
             THEN [err |-> "ok", balance |-> paid.balance, wallets |-> paid.wallets]
             ELSE [err |-> "Transfer failed", balance |-> balance, wallets |-> wallets]
    ELSE [err |-> "Unauthorized", balance |-> balance, wallets |-> wallets]

WithdrawFees(caller) ==
    LET r == WithdrawFeesCall(caller)
    IN  /\ balance' = r.balance
        /\ wallets' = r.wallets
        /\ ret' = Ret("withdrawFees", r.err)
        /\ UNCHANGED <<owner, handovers, messagingPublicKeys, permanentMessages, userPermanentMessages,
                       messageCounter, permanentMessageFee, events, now, keyring, view, cipher, inflight, io>>

(***************************************************************************)
(* Functions inherited from Ownable and UUPSUpgradeable.  Each is payable:  *)
(* the value attached to a call that does not revert stays in the contract. *)
(***************************************************************************)
\* the ether a payable call that went through moves into the contract
Paid(caller, value) ==
    [balance |-> balance + value, wallets |-> [wallets EXCEPT ![caller] = @ - value]]

\* the outcome of an inherited call: err, and the owner and handover slots
\* it leaves
InheritedCall(caller, value, err, newOwner, newHandovers) ==
    /\ wallets[caller] >= value
    /\ owner' = IF err = "ok" THEN newOwner ELSE owner
    /\ handovers' = IF err = "ok" THEN newHandovers ELSE handovers
    /\ balance' = IF err = "ok" THEN Paid(caller, value).balance ELSE balance
    /\ wallets' = IF err = "ok" THEN Paid(caller, value).wallets ELSE wallets
    /\ UNCHANGED <<messagingPublicKeys, permanentMessages, userPermanentMessages,
                   messageCounter, permanentMessageFee, events, now, keyring, view, cipher, inflight, io>>

\* Ownable.transferOwnership(newOwner), onlyOwner
TransferOwnership(caller, newOwner, value) ==
    LET err == IF ~OnlyOwner(caller) THEN "Unauthorized"
               ELSE IF newOwner = ZeroAddress THEN "NewOwnerIsZeroAddress"
               ELSE "ok"
    IN  /\ InheritedCall(caller, value, err, newOwner, handovers)
        /\ ret' = Ret("transferOwnership", err)

\* Ownable.renounceOwnership(), onlyOwner
RenounceOwnership(caller, value) ==
    LET err == IF OnlyOwner(caller) THEN "ok" ELSE "Unauthorized"
    IN  /\ InheritedCall(caller, value, err, ZeroAddress, handovers)
        /\ ret' = Ret("renounceOwnership", err)

\* Ownable.requestOwnershipHandover(), open to every caller; the request
\* stays valid for 48 hours, longer than the blocks 0..MaxTime span
RequestOwnershipHandover(caller, value) ==
    /\ InheritedCall(caller, value, "ok", owner, handovers \cup {caller})
    /\ ret' = Ret("requestOwnershipHandover", "ok")

\* Ownable.cancelOwnershipHandover(), open to every caller
CancelOwnershipHandover(caller, value) ==
    /\ InheritedCall(caller, value, "ok", owner, handovers \ {caller})
    /\ ret' = Ret("cancelOwnershipHandover", "ok")

\* Ownable.completeOwnershipHandover(pendingOwner), onlyOwner
CompleteOwnershipHandover(caller, pendingOwner, value) ==
    LET err == IF ~OnlyOwner(caller) THEN "Unauthorized"
               ELSE IF pendingOwner \notin handovers THEN "NoHandoverRequest"
               ELSE "ok"
    IN  /\ InheritedCall(caller, value, err, pendingOwner, handovers \ {pendingOwner})
        /\ ret' = Ret("completeOwnershipHandover", err)

\* _authorizeUpgrade(address) internal override onlyOwner {}
AuthorizeUpgrade(caller) == OnlyOwner(caller)

\* UUPSUpgradeable.upgradeToAndCall(newImplementation, ""), the new
\* implementation being another deployment of this contract's code: the
\* proxy's storage is kept
UpgradeToAndCall(caller, value) ==
    LET err == IF AuthorizeUpgrade(caller) THEN "ok" ELSE "Unauthorized"
    IN  /\ InheritedCall(caller, value, err, owner, handovers)
        /\ ret' = Ret("upgradeToAndCall", err)

\* a later block
Tick ==
    /\ now < MaxTime
    /\ now' = now + 1
    /\ UNCHANGED <<ledger, ret, view, wallets, cipher, inflight, io, keyring>>

(***************************************************************************)
(* Client: hex strings and addresses                                       *)
(***************************************************************************)
\* publicKeyToHex: two hex digits per byte, as digit values
PublicKeyToHex(bytes) ==
    [i \in 1..(2 * Len(bytes)) |->
        IF i % 2 = 1 THEN bytes[(i + 1) \div 2] \div 16 ELSE bytes[i \div 2] % 16]

\* str.match(/.{1,2}/g).map(byte => parseInt(byte, 16)): a last odd digit
\* is a chunk of its own
ParseHexPairs(hex) ==
    [i \in 1..((Len(hex) + 1) \div 2) |->
        IF 2 * i <= Len(hex) THEN hex[2 * i - 1] * 16 + hex[2 * i] ELSE hex[2 * i - 1]]

\* publicKeyHex.slice(0, 64).padEnd(64, '0') as bytes32
ToBytes32(publicKeyHex) ==
    ParseHexPairs([i \in 1..HexChars |-> IF i <= Len(publicKeyHex) THEN publicKeyHex[i] ELSE 0])

RECURSIVE TrimmedLength(_, _)
TrimmedLength(hex, n) ==
    IF n = 0 \/ hex[n] # 0 THEN n ELSE TrimmedLength(hex, n - 1)

\* hex.replace(/0+$/, '')
StripTrailingZeros(hex) == SubSeq(hex, 1, TrimmedLength(hex, Len(hex)))

\* contract.ts getPublicKey applied to a record: its hex digits without
\* trailing zeros; the empty string stands for null
TrimmedHex(record) == StripTrailingZeros(PublicKeyToHex(record))

(***************************************************************************)
(* Client: text encoding.  A message is a JavaScript string: a sequence of *)
(* UTF-16 code units.                                                      *)
(***************************************************************************)
IsHighSurrogate(c) == c >= 55296 /\ c <= 56319
IsLowSurrogate(c) == c >= 56320 /\ c <= 57343
ReplacementChar == 65533
ByteOrderMark == 65279

\* variant: one byte per code point, as charCodeAt-based packing gives
OneBytePerCodePoint(cp) == <<cp % 256>>

\* the UTF-8 bytes of a code point
Utf8Bytes(cp) ==
    IF cp < 128 THEN <<cp>>
    ELSE IF cp < 2048 THEN <<192 + (cp \div 64), 128 + (cp % 64)>>
    ELSE IF cp < 65536
    THEN <<224 + (cp \div 4096), 128 + ((cp \div 64) % 64), 128 + (cp % 64)>>
    ELSE <<240 + (cp \div 262144), 128 + ((cp \div 4096) % 64),
           128 + ((cp \div 64) % 64), 128 + (cp % 64)>>

RECURSIVE EncodeFrom(_, _)
EncodeFrom(units, i) ==
    IF i > Len(units) THEN <<>>
    ELSE IF /\ IsHighSurrogate(units[i])
            /\ i < Len(units)
            /\ IsLowSurrogate(units[i + 1])
    THEN Utf8Bytes(65536 + (units[i] - 55296) * 1024 + (units[i + 1] - 56320))
         \o EncodeFrom(units, i + 2)
    ELSE IF IsHighSurrogate(units[i]) \/ IsLowSurrogate(units[i])
    THEN Utf8Bytes(ReplacementChar) \o EncodeFrom(units, i + 1)
    ELSE Utf8Bytes(units[i]) \o EncodeFrom(units, i + 1)

\* new TextEncoder().encode(message): an unpaired surrogate is encoded as
\* U+FFFD
TextEncode(units) == EncodeFrom(units, 1)

\* the code units of a code point
UnitsOf(cp) ==
    IF cp < 65536 THEN <<cp>>
    ELSE <<55296 + ((cp - 65536) \div 1024), 56320 + ((cp - 65536) % 1024)>>

\* the bytes that follow a lead byte, and the range the decoder allows for
\* the first of them
BytesNeeded(lead) ==
    IF lead >= 194 /\ lead <= 223 THEN 1
    ELSE IF lead >= 224 /\ lead <= 239 THEN 2
    ELSE IF lead >= 240 /\ lead <= 244 THEN 3
    ELSE 0
LowerBoundary(lead) == IF lead = 224 THEN 160 ELSE IF lead = 240 THEN 144 ELSE 128
UpperBoundary(lead) == IF lead = 237 THEN 159 ELSE IF lead = 244 THEN 143 ELSE 191

RECURSIVE BytesSeen(_, _, _)
\* how many of the bytes after the lead byte at i the decoder accepts, k
\* being accepted already
BytesSeen(bytes, i, k) ==
    IF k = BytesNeeded(bytes[i]) \/ i + k + 1 > Len(bytes) THEN k
    ELSE LET b == bytes[i + k + 1]
             lower == IF k = 0 THEN LowerBoundary(bytes[i]) ELSE 128
             upper == IF k = 0 THEN UpperBoundary(bytes[i]) ELSE 191
         IN  IF b >= lower /\ b <= upper THEN BytesSeen(bytes, i, k + 1) ELSE k

\* the code point of a complete sequence of 1 + needed bytes at i
CodePointAt(bytes, i, needed) ==
    IF needed = 1 THEN (bytes[i] - 192) * 64 + (bytes[i + 1] - 128)
    ELSE IF needed = 2
    THEN (bytes[i] - 224) * 4096 + (bytes[i + 1] - 128) * 64 + (bytes[i + 2] - 128)
    ELSE (bytes[i] - 240) * 262144 + (bytes[i + 1] - 128) * 4096
         + (bytes[i + 2] - 128) * 64 + (bytes[i + 3] - 128)

RECURSIVE DecodeFrom(_, _)
\* the UTF-8 decoder: a byte that cannot start a sequence, and a sequence
\* cut short by a byte out of range or by the end, decode to one U+FFFD; the
\* byte that cut the sequence short is decoded again
DecodeFrom(bytes, i) ==
    IF i > Len(bytes) THEN <<>>
    ELSE LET b == bytes[i]
             needed == BytesNeeded(b)
             seen == BytesSeen(bytes, i, 0)
         IN  IF b < 128 THEN <<b>> \o DecodeFrom(bytes, i + 1)
             ELSE IF needed = 0 THEN <<ReplacementChar>> \o DecodeFrom(bytes, i + 1)
             ELSE IF seen = needed
             THEN UnitsOf(CodePointAt(bytes, i, needed)) \o DecodeFrom(bytes, i + needed + 1)
             ELSE <<ReplacementChar>> \o DecodeFrom(bytes, i + seen + 1)

\* new TextDecoder().decode(bytes): a leading byte order mark is dropped
TextDecode(bytes) ==
    LET units == DecodeFrom(bytes, 1)
    IN  IF Len(units) > 0 /\ units[1] = ByteOrderMark
        THEN SubSeq(units, 2, Len(units))
        ELSE units

\* A string TextEncoder and TextDecoder carry unchanged: every surrogate is
\* paired and the first code unit is not the byte order mark.
RECURSIVE SurrogatesPaired(_, _)
SurrogatesPaired(units, i) ==
    IF i > Len(units) THEN TRUE
    ELSE IF IsHighSurrogate(units[i])
    THEN i < Len(units) /\ IsLowSurrogate(units[i + 1]) /\ SurrogatesPaired(units, i + 2)
    ELSE ~IsLowSurrogate(units[i]) /\ SurrogatesPaired(units, i + 1)

WellFormedText(units) ==
    /\ SurrogatesPaired(units, 1)
    /\ (Len(units) > 0 => units[1] # ByteOrderMark)

(***************************************************************************)
(* Client: key derivation                                                  *)
(***************************************************************************)
\* SIGNING_MESSAGE, "BlockTalk Encryption Key Generation"
SigningMessage ==
    <<66, 108, 111, 99, 107, 84, 97, 108, 107, 32, 69, 110, 99, 114, 121, 112, 116, 105,
      111, 110, 32, 75, 101, 121, 32, 71, 101, 110, 101, 114, 97, 116, 105, 111, 110>>

\* bytes of a personal_sign signature
SignatureBytes == 65

\* how a derivation's signing goes: the first request is signed, the first
\* fails and the hex-encoded retry is signed, or both fail
SignOutcomes == {"text", "hex", "refused"}

\* variant: the wallet signs the digits of the hex-encoded request
HexDigitsSigned(form) ==
    IF form = "text" THEN TextEncode(SigningMessage)
    ELSE PublicKeyToHex(TextEncode(SigningMessage))

\* the bytes the wallet signs: those of the string, or those the
\* hex-encoded request `0x${Buffer.from(SIGNING_MESSAGE, 'utf8').toString('hex')}`
\* decodes to
SignedBytes(form) ==
    IF form = "text" THEN TextEncode(SigningMessage)
    ELSE ParseHexPairs(PublicKeyToHex(TextEncode(SigningMessage)))

\* the wallet's personal_sign, a signing oracle outside this program: one
\* signature per account and signed bytes, returned as hex digits
PersonalSign(account, bytes) ==
    PublicKeyToHex([i \in 1..SignatureBytes |->
                       (account * 37 + i * 11 + bytes[(i % Len(bytes)) + 1]) % 256])

\* another wallet's personal_sign, as deterministic, with other signatures
OtherWalletSign(account, bytes) ==
    PublicKeyToHex([i \in 1..SignatureBytes |->
                       (account * 101 + i * 7 + 3 * bytes[((2 * i) % Len(bytes)) + 1]) % 256])

\* a 32-bit word is <<high 16 bits, low 16 bits>>
HalfWord == 2 ^ 16

\* the exclusive or and the conjunction of two 4-bit values
XorTable ==
    <<<<0, 1, 2, 3, 4, 5, 6, 7, 8, 9, 10, 11, 12, 13, 14, 15>>,
      <<1, 0, 3, 2, 5, 4, 7, 6, 9, 8, 11, 10, 13, 12, 15, 14>>,
      <<2, 3, 0, 1, 6, 7, 4, 5, 10, 11, 8, 9, 14, 15, 12, 13>>,
      <<3, 2, 1, 0, 7, 6, 5, 4, 11, 10, 9, 8, 15, 14, 13, 12>>,
      <<4, 5, 6, 7, 0, 1, 2, 3, 12, 13, 14, 15, 8, 9, 10, 11>>,
      <<5, 4, 7, 6, 1, 0, 3, 2, 13, 12, 15, 14, 9, 8, 11, 10>>,
      <<6, 7, 4, 5, 2, 3, 0, 1, 14, 15, 12, 13, 10, 11, 8, 9>>,
      <<7, 6, 5, 4, 3, 2, 1, 0, 15, 14, 13, 12, 11, 10, 9, 8>>,
      <<8, 9, 10, 11, 12, 13, 14, 15, 0, 1, 2, 3, 4, 5, 6, 7>>,
      <<9, 8, 11, 10, 13, 12, 15, 14, 1, 0, 3, 2, 5, 4, 7, 6>>,
      <<10, 11, 8, 9, 14, 15, 12, 13, 2, 3, 0, 1, 6, 7, 4, 5>>,
      <<11, 10, 9, 8, 15, 14, 13, 12, 3, 2, 1, 0, 7, 6, 5, 4>>,
      <<12, 13, 14, 15, 8, 9, 10, 11, 4, 5, 6, 7, 0, 1, 2, 3>>,
      <<13, 12, 15, 14, 9, 8, 11, 10, 5, 4, 7, 6, 1, 0, 3, 2>>,
      <<14, 15, 12, 13, 10, 11, 8, 9, 6, 7, 4, 5, 2, 3, 0, 1>>,
      <<15, 14, 13, 12, 11, 10, 9, 8, 7, 6, 5, 4, 3, 2, 1, 0>>>>
AndTable ==
    <<<<0, 0, 0, 0, 0, 0, 0, 0, 0, 0, 0, 0, 0, 0, 0, 0>>,
      <<0, 1, 0, 1, 0, 1, 0, 1, 0, 1, 0, 1, 0, 1, 0, 1>>,
      <<0, 0, 2, 2, 0, 0, 2, 2, 0, 0, 2, 2, 0, 0, 2, 2>>,
      <<0, 1, 2, 3, 0, 1, 2, 3, 0, 1, 2, 3, 0, 1, 2, 3>>,
      <<0, 0, 0, 0, 4, 4, 4, 4, 0, 0, 0, 0, 4, 4, 4, 4>>,
      <<0, 1, 0, 1, 4, 5, 4, 5, 0, 1, 0, 1, 4, 5, 4, 5>>,
      <<0, 0, 2, 2, 4, 4, 6, 6, 0, 0, 2, 2, 4, 4, 6, 6>>,
      <<0, 1, 2, 3, 4, 5, 6, 7, 0, 1, 2, 3, 4, 5, 6, 7>>,
      <<0, 0, 0, 0, 0, 0, 0, 0, 8, 8, 8, 8, 8, 8, 8, 8>>,
      <<0, 1, 0, 1, 0, 1, 0, 1, 8, 9, 8, 9, 8, 9, 8, 9>>,
      <<0, 0, 2, 2, 0, 0, 2, 2, 8, 8, 10, 10, 8, 8, 10, 10>>,
      <<0, 1, 2, 3, 0, 1, 2, 3, 8, 9, 10, 11, 8, 9, 10, 11>>,
      <<0, 0, 0, 0, 4, 4, 4, 4, 8, 8, 8, 8, 12, 12, 12, 12>>,
      <<0, 1, 0, 1, 4, 5, 4, 5, 8, 9, 8, 9, 12, 13, 12, 13>>,
      <<0, 0, 2, 2, 4, 4, 6, 6, 8, 8, 10, 10, 12, 12, 14, 14>>,
      <<0, 1, 2, 3, 4, 5, 6, 7, 8, 9, 10, 11, 12, 13, 14, 15>>>>
\* a bitwise operation on two 16-bit values, four bits at a time
Nibbles(a) == <<a % 16, (a \div 16) % 16, (a \div 256) % 16, a \div 4096>>
Combined(table, a, b) ==
    LET p == Nibbles(a)
        q == Nibbles(b)
    IN  table[p[1] + 1][q[1] + 1] + 16 * table[p[2] + 1][q[2] + 1]
        + 256 * table[p[3] + 1][q[3] + 1] + 4096 * table[p[4] + 1][q[4] + 1]
BitXor(a, b) == Combined(XorTable, a, b)
BitAnd(a, b) == Combined(AndTable, a, b)

WordXor(v, w) == <<BitXor(v[1], w[1]), BitXor(v[2], w[2])>>
WordAnd(v, w) == <<BitAnd(v[1], w[1]), BitAnd(v[2], w[2])>>
WordNot(w) == <<HalfWord - 1 - w[1], HalfWord - 1 - w[2]>>
WordAdd(v, w) ==
    <<(v[1] + w[1] + ((v[2] + w[2]) \div HalfWord)) % HalfWord, (v[2] + w[2]) % HalfWord>>

\* rotation and shift to the right by n bits
RotR(w, n) ==
    LET v == IF n < 16 THEN w ELSE <<w[2], w[1]>>
        k == n % 16
    IN  <<(v[1] \div (2 ^ k)) + ((v[2] % (2 ^ k)) * (2 ^ (16 - k))),
          (v[2] \div (2 ^ k)) + ((v[1] % (2 ^ k)) * (2 ^ (16 - k)))>>
ShR(w, n) ==
    <<w[1] \div (2 ^ n), (w[2] \div (2 ^ n)) + ((w[1] % (2 ^ n)) * (2 ^ (16 - n)))>>

Xor3(u, v, w) == WordXor(u, WordXor(v, w))
Ch(u, v, w) == WordXor(WordAnd(u, v), WordAnd(WordNot(u), w))
Maj(u, v, w) == Xor3(WordAnd(u, v), WordAnd(u, w), WordAnd(v, w))
BigSigma0(w) == Xor3(RotR(w, 2), RotR(w, 13), RotR(w, 22))
BigSigma1(w) == Xor3(RotR(w, 6), RotR(w, 11), RotR(w, 25))
SmallSigma0(w) == Xor3(RotR(w, 7), RotR(w, 18), ShR(w, 3))
SmallSigma1(w) == Xor3(RotR(w, 17), RotR(w, 19), ShR(w, 10))

RoundConstants ==
    <<<<17034, 12184>>, <<28983, 17553>>, <<46528, 64463>>, <<59829, 56229>>,
      <<14678, 49755>>, <<23025, 4593>>, <<37439, 33444>>, <<43804, 24277>>,
      <<55303, 43672>>, <<4739, 23297>>, <<9265, 34238>>, <<21772, 32195>>,
      <<29374, 23924>>, <<32990, 45566>>, <<39900, 1703>>, <<49563, 61812>>,
      <<58523, 27073>>, <<61374, 18310>>, <<4033, 40390>>, <<9228, 41420>>,
      <<11753, 11375>>, <<19060, 33962>>, <<23728, 43484>>, <<30457, 35034>>,
      <<38974, 20818>>, <<43057, 50797>>, <<45059, 10184>>, <<48985, 32711>>,
      <<50912, 3059>>, <<54695, 37191>>, <<1738, 25425>>, <<5161, 10599>>,
      <<10167, 2693>>, <<11803, 8504>>, <<19756, 28156>>, <<21304, 3347>>,
      <<25866, 29524>>, <<30314, 2747>>, <<33218, 51502>>, <<37490, 11397>>,
      <<41663, 59553>>, <<43034, 26187>>, <<49739, 35696>>, <<51052, 20899>>,
      <<53650, 59417>>, <<54937, 1572>>, <<62478, 13701>>, <<4202, 41072>>,
      <<6564, 49430>>, <<7735, 27656>>, <<10056, 30540>>, <<13488, 48309>>,
      <<14620, 3251>>, <<20184, 43594>>, <<23452, 51791>>, <<26670, 28659>>,
      <<29839, 33518>>, <<30885, 25455>>, <<33992, 30740>>, <<36039, 520>>,
      <<37054, 65530>>, <<42064, 27883>>, <<48889, 41975>>, <<50801, 30962>>>>

InitialHash ==
    <<<<27145, 58983>>, <<47975, 44677>>, <<15470, 62322>>, <<42319, 62778>>,
      <<20750, 21119>>, <<39685, 26764>>, <<8067, 55723>>, <<23520, 52505>>>>

\* the message followed by 0x80, zeros up to 56 modulo 64 and its length in
\* bits as eight bytes
Padded(bytes) ==
    LET n == Len(bytes)
        zeros == (119 - (n % 64)) % 64
    IN  bytes \o <<128>> \o [i \in 1..zeros |-> 0] \o <<0, 0, 0, 0>>
        \o [i \in 1..4 |-> ((8 * n) \div (256 ^ (4 - i))) % 256]

WordBytes(w) == <<w[1] \div 256, w[1] % 256, w[2] \div 256, w[2] % 256>>
WordAt(bytes, i) == <<bytes[i] * 256 + bytes[i + 1], bytes[i + 2] * 256 + bytes[i + 3]>>

RECURSIVE Schedule(_)
Schedule(w) ==
    IF Len(w) = 64 THEN w
    ELSE LET t == Len(w) + 1
         IN  Schedule(Append(w, WordAdd(WordAdd(SmallSigma1(w[t - 2]), w[t - 7]),
                                        WordAdd(SmallSigma0(w[t - 15]), w[t - 16]))))

RECURSIVE Compress(_, _)
\* the working variables after each round, the last being those after round 64
Compress(rounds, w) ==
    IF Len(rounds) = 65 THEN rounds[65]
    ELSE LET t == Len(rounds)
             s == rounds[t]
             t1 == WordAdd(WordAdd(WordAdd(s[8], BigSigma1(s[5])), Ch(s[5], s[6], s[7])),
                           WordAdd(RoundConstants[t], w[t]))
             t2 == WordAdd(BigSigma0(s[1]), Maj(s[1], s[2], s[3]))
         IN  Compress(Append(rounds, <<WordAdd(t1, t2), s[1], s[2], s[3],
                                       WordAdd(s[4], t1), s[5], s[6], s[7]>>), w)

RECURSIVE HashBlocks(_, _, _)
HashBlocks(h, bytes, i) ==
    IF i > Len(bytes) THEN h
    ELSE LET w == Schedule([t \in 1..16 |-> WordAt(bytes, i + 4 * (t - 1))])
             s == Compress(<<h>>, w)
         IN  HashBlocks([k \in 1..8 |-> WordAdd(h[k], s[k])], bytes, i + 64)

\* crypto.subtle.digest('SHA-256', signatureBytes): the SHA-256 digest of
\* the bytes (FIPS 180-4), for inputs shorter than 2^28 bytes
Sha256(bytes) ==
    LET h == HashBlocks(InitialHash, Padded(bytes), 1)
    IN  WordBytes(h[1]) \o WordBytes(h[2]) \o WordBytes(h[3]) \o WordBytes(h[4])
        \o WordBytes(h[5]) \o WordBytes(h[6]) \o WordBytes(h[7]) \o WordBytes(h[8])

\* the key material derived from a signature: the AES key is imported from
\* privateKeyBytes and publicKeyBytes is filled from its two halves
KeysFromSignature(signature) ==
    LET signatureBytes == ParseHexPairs(signature)
        privateKeyBytes == Sha256(signatureBytes)
    IN  [privateKey |-> privateKeyBytes,
         publicKeyBytes |-> SubSeq(privateKeyBytes, 1, HalfKey)
                            \o SubSeq(privateKeyBytes, HalfKey + 1, KeyBytes)]

NoKeys == [privateKey |-> <<>>, publicKeyBytes |-> <<>>]

\* deriveEncryptionKeys with the requests it makes to the wallet whose
\* personal_sign is Sign
DeriveEncryptionKeysWith(Sign(_, _), account, signing) ==
    LET requests == IF signing = "text" THEN <<"text">> ELSE <<"text", "hex">>
    IN  IF signing = "refused"
        THEN [err |-> "FailedToDeriveKeys", requests |-> requests,
              signature |-> <<>>, keys |-> NoKeys]
        ELSE LET signature == Sign(account, SignedBytes(signing))
             IN  [err |-> "ok", requests |-> requests,
                  signature |-> signature, keys |-> KeysFromSignature(signature)]

\* deriveEncryptionKeys of the accounts' wallet
DeriveEncryptionKeysCall(account, signing) ==
    DeriveEncryptionKeysWith(PersonalSign, account, signing)

\* deriveEncryptionKeys when the first request is signed
DeriveEncryptionKeys(account) == DeriveEncryptionKeysCall(account, "text").keys

\* what handleRegister stores for an account: registerPublicKey applied to
\* publicKeyToHex of the derived publicKeyBytes
RegistrationRecord(account) ==
    ToBytes32(PublicKeyToHex(DeriveEncryptionKeys(account).publicKeyBytes))

\* The conversions above applied to the accounts and key records of this
\* model, each evaluated once.
RECURSIVE Tabulated(_, _)
\* the function f on the given part of its domain, as a table whose values
\* are each computed once
Tabulated(f, domain) ==
    IF domain = {} THEN <<>>
    ELSE LET x == CHOOSE y \in domain : TRUE
         IN  (x :> f[x]) @@ Tabulated(f, domain \ {x})

DerivedKeys ==
    Tabulated([a \in Accounts, f \in SignOutcomes |-> DeriveEncryptionKeysCall(a, f)],
              Accounts \X SignOutcomes)
\* the key material of each account as the running client holds it
WalletKeys == [a \in Accounts |-> keyring[a, "text"].keys]
RegistrationRecords == Tabulated([a \in Accounts |-> RegistrationRecord(a)], Accounts)
\* the record handleRegister stores after each signing that succeeds
StoredRecords ==
    [a \in Accounts, f \in SignOutcomes \ {"refused"} |->
        ToBytes32(PublicKeyToHex(keyring[a, f].keys.publicKeyBytes))]
\* a 32-byte key with bytes 1, 2, ... and the given last byte
KeyEndingIn(b) == [i \in 1..KeyBytes |-> IF i = KeyBytes THEN b ELSE i]
\* 32-byte keys registered through the client: last byte 0x20, 0x10, 0x01,
\* 0xff and 0x00, one with leading zero bytes, and a derived key
WireKeys ==
    {KeyEndingIn(b) : b \in {32, 16, 1, 255, 0}}
    \cup {[i \in 1..KeyBytes |-> IF i <= 2 THEN 0 ELSE i]}
    \cup {WalletKeys[Alice].publicKeyBytes}
\* the record contract.ts registerPublicKey stores for publicKeyToHex(K)
WireRecords == [k \in WireKeys |-> ToBytes32(PublicKeyToHex(k))]

\* contract.ts getPublicKey; the record of an address the mapping was
\* never written for is zero
ClientGetPublicKey(user) ==
    TrimmedHex(IF user \in DOMAIN messagingPublicKeys THEN messagingPublicKeys[user]
               ELSE Bytes32Zero)

\* crypto.subtle.importKey('raw', bytes, AES-GCM): 128, 192 or 256 bits
ImportableKey(bytes) == Len(bytes) \in {HalfKey, HalfKey + HalfKey \div 2, KeyBytes}

(***************************************************************************)
(* Client: the cipher                                                      *)
(***************************************************************************)
\* variant: the payload opens under every key
DecryptUnderAnyKey(content, privateKey) ==
    IF content.fmt = "aes"
    THEN [ok |-> TRUE, text |-> TextDecode(content.pt), error |-> "none"]
    ELSE [ok |-> FALSE, text |-> <<>>, error |-> "SyntaxError"]

\* encryptMessage: AES-GCM over the encoded message under the key imported
\* from the given bytes, written as JSON {iv, data}; the ciphertext opens
\* under exactly that key
EncryptMessage(message, keyBytes, iv) ==
    [fmt |-> "aes", iv |-> iv, key |-> keyBytes, pt |-> TextEncode(message)]

\* "[Failed to decrypt]"
FailedToDecrypt ==
    <<91, 70, 97, 105, 108, 101, 100, 32, 116, 111, 32, 100, 101, 99, 114, 121, 112, 116, 93>>

\* payloads that are not what encryptMessage wrote: {iv, data} JSON whose
\* data bytes were altered, so that the tag verifies under no key; the JSON
\* text cut short; a JSON object without iv and data
Tampered(payload) == [payload EXCEPT !.fmt = "tampered"]
Truncated(payload) == [payload EXCEPT !.fmt = "text"]
Legacy(payload) == [payload EXCEPT !.fmt = "legacy"]

\* decryptMessage: JSON.parse, the {iv, data} path when both are present,
\* crypto.subtle.decrypt and the decoding of the opened bytes; text is what
\* loadMessages shows, error names what the try block threw: JSON.parse a
\* SyntaxError, AES-GCM decrypt an OperationError, and the RSA-OAEP decrypt
\* of the legacy path, given an AES key, an InvalidAccessError
DecryptMessage(content, privateKey) ==
    IF content.fmt = "aes" /\ content.key = privateKey
    THEN [ok |-> TRUE, text |-> TextDecode(content.pt), error |-> "none"]
    ELSE [ok |-> FALSE, text |-> FailedToDecrypt,
          error |-> IF content.fmt \in {"aes", "tampered"} THEN "OperationError"
                    ELSE IF content.fmt = "legacy" THEN "InvalidAccessError"
                    ELSE "SyntaxError"]

\* messages typed in the client: "hi"
Plaintexts == {<<104, 105>>}
Nonces == {1}

(***************************************************************************)
(* Client: conversation addressing                                         *)
(***************************************************************************)
AddressChars == 40

\* an address string of 40 hex characters, as character codes, with its
\* letters in upper or lower case
HexCharCode(d, upper) ==
    IF d < 10 THEN 48 + d ELSE (IF upper THEN 65 ELSE 97) + (d - 10)

NibbleOf(a, k) == IF k >= 7 THEN 0 ELSE (a \div (16 ^ k)) % 16

AddressString(a, upper) ==
    [i \in 1..AddressChars |-> HexCharCode(NibbleOf(a, AddressChars - i), upper)]

\* variant: the strings are compared as typed
KeepCase(str) == str

ToLowerCase(str) == [i \in 1..Len(str) |-> IF str[i] \in 65..90 THEN str[i] + 32 ELSE str[i]]

\* JavaScript's < on strings: the first differing code unit decides, and a
\* proper prefix is the smaller
StringLess(s, t) ==
    LET differ == {i \in 1..Len(s) : i > Len(t) \/ s[i] # t[i]}
    IN  IF differ = {} THEN Len(s) < Len(t)
        ELSE LET first == CHOOSE i \in differ : \A j \in differ : i <= j
             IN  first <= Len(t) /\ s[first] < t[first]

HexValue(code) == IF code >= 97 THEN code - 87 ELSE IF code >= 65 THEN code - 55 ELSE code - 48

RECURSIVE HexPrefixValue(_, _)
HexPrefixValue(str, n) ==
    IF n = 0 THEN 0 ELSE HexPrefixValue(str, n - 1) * 16 + HexValue(str[n])

\* the 20 bytes an address string encodes, as a number
AddressValue(str) == HexPrefixValue(str, Len(str))

\* orderedAddresses = addr1 < addr2 ? [addr1, addr2] : [addr2, addr1]
OrderedAddresses(addr1, addr2) ==
    IF StringLess(addr1, addr2) THEN <<addr1, addr2>> ELSE <<addr2, addr1>>

\* contract.ts createConversationHash
CreateConversationHash(address1, address2) ==
    LET ordered == OrderedAddresses(ToLowerCase(address1), ToLowerCase(address2))
    IN  Keccak256(<<AddressValue(ordered[1]), AddressValue(ordered[2])>>)

\* contact addresses as typed: the accounts and one address with letters,
\* in either case
ContactStrings == {AddressString(a, u) : a \in Accounts \cup {171}, u \in BOOLEAN}

\* the connected account's address as the wallet reports it
AccountString(account) == AddressString(account, FALSE)
AccountStrings == [a \in Accounts |-> AccountString(a)]

\* contacts selected in a session: the two senders
SessionContacts == {AccountStrings[a] : a \in Senders}

\* an address string with its letters in alternating case
MixedCase(str) ==
    [i \in 1..Len(str) |-> IF i % 2 = 0 /\ str[i] \in 97..102 THEN str[i] - 32 ELSE str[i]]

\* the spellings of an address: lower case, upper case and mixed
Spellings(a) ==
    {AddressString(a, FALSE), AddressString(a, TRUE), MixedCase(AddressString(a, FALSE))}

\* createConversationHash(user1, user2) for every account and contact string
ConversationHashes ==
    [a \in Accounts, c \in ContactStrings |-> CreateConversationHash(AccountString(a), c)]

\* variant: the log is not filtered by conversation
GetAllMessages(account, contact) ==
    SelectSeq(events, LAMBDA e : e.name = "ConversationMessage")

\* getConversationMessages: the ConversationMessage log entries filed under
\* the conversation hash, in log order
GetConversationMessages(account, contact) ==
    SelectSeq(events, LAMBDA e : /\ e.name = "ConversationMessage"
                                 /\ e.conversationHash = ConversationHashes[account, contact])

(***************************************************************************)
(* Client handlers                                                         *)
(***************************************************************************)
\* contract.ts getPublicKey, as handleSendMessage calls it: null for an
\* empty string
ReadPublicKey(userAddress) ==
    /\ ret' = Ret("getPublicKey", IF ClientGetPublicKey(userAddress) = <<>> THEN "null" ELSE "ok")
    /\ UNCHANGED <<ledger, now, keyring, view, wallets, cipher, inflight, io>>

\* the state of an account's MessagingInterface just mounted; contact is
\* the contact whose conversation setMessages last showed
NoView == [selected |-> <<>>, contact |-> <<>>, messages |-> <<>>,
           loading |-> FALSE, sending |-> FALSE, rpcError |-> FALSE]

\* no request made
NoIo == [account |-> ZeroAddress, signed |-> <<>>, queried |-> <<>>, answered |-> 0,
         returned |-> <<>>]
\* no loadMessages scheduled or running, no handleSendMessage and no
\* handleRegister running, no transaction submitted and not yet mined
NoInflight == [loads |-> <<>>, sends |-> <<>>, registers |-> <<>>, transactions |-> <<>>]

\* the wallet's answer to a transaction request it declines
UserRejected == "User rejected the request"

\* most handler calls begun and not finished
MaxInFlight == 2

\* s without its i-th element
Without(s, i) == SubSeq(s, 1, i - 1) \o SubSeq(s, i + 1, Len(s))

\* the calls begun and not finished and the transactions not yet mined
InFlight ==
    Len(inflight.loads) + Len(inflight.sends) + Len(inflight.registers)
    + Len(inflight.transactions)

\* whether account has a registration submitted and not yet mined
RegistrationPending(account) ==
    \E i \in 1..Len(inflight.transactions) :
        /\ inflight.transactions[i].op = "registerPublicKey"
        /\ inflight.transactions[i].account = account

\* the sendMessage transactions submitted and not yet mined
SendsPending ==
    Cardinality({i \in 1..Len(inflight.transactions) :
                    inflight.transactions[i].op = "sendMessage"})

\* contract.ts registerPublicKey(account, publicKeyToHex(K)): the record is
\* the hex padded to 32 bytes, walletClient.writeContract submits the
\* transaction and its hash is returned; the ledger is as it was until the
\* transaction is mined
ClientRegisterPublicKey(account, publicKeyBytes) ==
    /\ InFlight < MaxInFlight
    /\ inflight' = [inflight EXCEPT !.transactions =
                        Append(@, [op |-> "registerPublicKey", account |-> account,
                                   publicKey |-> WireRecords[publicKeyBytes]])]
    /\ io' = [NoIo EXCEPT !.account = account]
    /\ ret' = Ret("writeContract", "ok")
    /\ UNCHANGED <<ledger, now, keyring, view, wallets, cipher>>

\* RegistrationFlow.handleRegister, its button disabled while isRegistering,
\* up to its first await: setIsRegistering(true), setStep('generating'),
\* and deriveEncryptionKeys is called
HandleRegister(account) ==
    /\ \A i \in 1..Len(inflight.registers) : inflight.registers[i].account # account
    /\ InFlight < MaxInFlight
    /\ inflight' = [inflight EXCEPT !.registers =
                        Append(@, [account |-> account, step |-> "generating",
                                   publicKey |-> Bytes32Zero, signed |-> <<>>])]
    /\ io' = [NoIo EXCEPT !.account = account]
    /\ ret' = Ret("setStep", "generating")
    /\ UNCHANGED <<ledger, now, keyring, view, wallets, cipher>>

\* deriveEncryptionKeys returns to handleRegister: the keys are derived from
\* the wallet's signature, publicKeyToHex gives the record to store,
\* setStep('signing') and registerPublicKey is called; a failed derivation
\* is caught and shown, setStep('intro'), and setIsRegistering(false) ends
\* the handler
KeysDerived(i, signing) ==
    LET register == inflight.registers[i]
        keyPair == keyring[register.account, signing]
    IN  /\ register.step = "generating"
        /\ inflight' = [inflight EXCEPT !.registers =
                            IF keyPair.err = "ok"
                            THEN [@ EXCEPT ![i] =
                                     [register EXCEPT
                                         !.step = "signing",
                                         !.publicKey = StoredRecords[register.account, signing],
                                         !.signed = keyPair.requests]]
                            ELSE Without(@, i)]
        /\ io' = [NoIo EXCEPT !.account = register.account, !.signed = keyPair.requests]
        /\ ret' = IF keyPair.err = "ok" THEN Ret("deriveEncryptionKeys", "ok")
                  ELSE Ret("handleRegister", keyPair.err)
        /\ UNCHANGED <<ledger, now, keyring, view, wallets, cipher>>

\* registerPublicKey returns and the rest of handleRegister runs: the
\* wallet declines the transaction, which is caught and shown, or submits it
\* and returns its hash, setStep('complete'); finally
\* setIsRegistering(false).  The ledger is as it was until the transaction
\* is mined.
RegisterFinished(i, confirmed) ==
    LET register == inflight.registers[i]
        err == IF confirmed THEN "ok" ELSE UserRejected
    IN  /\ register.step = "signing"
        /\ inflight' = [inflight EXCEPT
                           !.registers = Without(@, i),
                           !.transactions =
                               IF confirmed
                               THEN Append(@, [op |-> "registerPublicKey",
                                               account |-> register.account,
                                               publicKey |-> register.publicKey])
                               ELSE @]
        /\ io' = [NoIo EXCEPT !.account = register.account, !.signed = register.signed]
        /\ ret' = Ret("handleRegister", err)
        /\ UNCHANGED <<ledger, now, keyring, view, wallets, cipher>>

\* the read endpoints, BASE_SEPOLIA_RPCS, in their order
Endpoints == 4
\* which endpoints answer a query
EndpointOutcomes == [1..Endpoints -> BOOLEAN]
AllUp == [i \in 1..Endpoints |-> TRUE]
AllDown == [i \in 1..Endpoints |-> FALSE]

\* the orders in which an endpoint can list n logs; LogOrder is the ledger's
Orders(n) == {p \in [1..n -> 1..n] : \A i, j \in 1..n : i # j => p[i] # p[j]}
LogOrder(n) == [i \in 1..n |-> i]
Arrange(logs, order) == [k \in 1..Len(logs) |-> logs[order[k]]]

\* variant: every client is queried, whichever answers
QueryEvery(i, up, logs) ==
    LET answering == {k \in 1..Len(up) : up[k]}
    IN  [out |-> IF answering = {} THEN <<>> ELSE logs,
         queried |-> [k \in 1..Len(up) |-> k],
         answered |-> IF answering = {} THEN 0
                      ELSE CHOOSE k \in answering : \A m \in answering : k <= m]

RECURSIVE QueryFrom(_, _, _)
\* the loop over the clients from client i: the first answer is returned,
\* a failure moves on to the next client, and the last failure returns []
QueryFrom(i, up, logs) ==
    IF i > Len(up) THEN [out |-> <<>>, queried |-> <<>>, answered |-> 0]
    ELSE IF up[i] THEN [out |-> logs, queried |-> <<i>>, answered |-> i]
    ELSE LET rest == QueryFrom(i + 1, up, logs)
         IN  [rest EXCEPT !.queried = <<i>> \o @]

\* the MessageSent logs tryGetLogsWithClient collects for a user: those
\* sent, then those received that are not among them
MessageSentLogs(userAddress) ==
    SelectSeq(events, LAMBDA e : e.name = "MessageSent" /\ e.sender = userAddress)
    \o SelectSeq(events, LAMBDA e : /\ e.name = "MessageSent"
                                    /\ e.recipient = userAddress
                                    /\ e.sender # userAddress)

\* getMessageEvents: the primary client, then fallbackClients
GetMessageEvents(userAddress, primaryUp, up) ==
    QueryFrom(1, <<primaryUp>> \o up, MessageSentLogs(userAddress))

\* getConversationMessages over fallbackClients
QueryConversation(account, contact, up, order) ==
    QueryFrom(1, up, Arrange(GetConversationMessages(account, contact), order))

\* one transcript entry of loadMessages
TranscriptEntry(account, event, privateKey) ==
    LET d == DecryptMessage(event.encryptedContent, privateKey)
    IN  [event |-> event, decryptedContent |-> d.text, isFromMe |-> event.sender = account]

\* variant: an event whose decryption fails is left out
DecryptedOnly(account, conversationMessages, privateKey) ==
    LET opened == SelectSeq(conversationMessages,
                            LAMBDA e : DecryptMessage(e.encryptedContent, privateKey).ok)
    IN  [i \in 1..Len(opened) |-> TranscriptEntry(account, opened[i], privateKey)]

\* the loop of loadMessages over the events: one entry pushed per event,
\* in the try branch or in the catch branch
DecryptAll(account, conversationMessages, privateKey) ==
    [i \in 1..Len(conversationMessages) |->
        TranscriptEntry(account, conversationMessages[i], privateKey)]

\* variant: the entries are left in the order of the query
Unsorted(entries) == entries

RECURSIVE SortByTimestamp(_)
\* Array.prototype.sort by timestamp: stable insertion of the last entry
SortByTimestamp(entries) ==
    IF Len(entries) <= 1 THEN entries
    ELSE LET init == SortByTimestamp(SubSeq(entries, 1, Len(entries) - 1))
             last == entries[Len(entries)]
             k == Cardinality({i \in 1..Len(init) : init[i].event.timestamp <= last.event.timestamp})
         IN  SubSeq(init, 1, k) \o <<last>> \o SubSeq(init, k + 1, Len(init))

\* the address a contact string stands for
ContactAddress == [c \in ContactStrings |-> AddressValue(c)]

\* a loadMessages call of account's component for contact, started by op
LoadOf(account, contact, op, stage) ==
    [account |-> account, contact |-> contact, op |-> op, stage |-> stage,
     queried |-> <<>>, answered |-> 0, logs |-> <<>>]

\* a contact button is clicked: setSelectedContact(contact), and the effect
\* on selectedContact calls loadMessages, which runs to its first await:
\* setLoading(true)
SelectContact(account, contact) ==
    /\ contact # view[account].selected
    /\ InFlight < MaxInFlight
    /\ view' = [view EXCEPT ![account].selected = contact, ![account].loading = TRUE]
    /\ inflight' = [inflight EXCEPT
                       !.loads = Append(@, LoadOf(account, contact, "loadMessages", "started"))]
    /\ io' = [NoIo EXCEPT !.account = account]
    /\ ret' = Ret("setSelectedContact", "ok")
    /\ UNCHANGED <<ledger, now, keyring, wallets, cipher>>

\* the Retry Loading button, shown for a selected contact when nothing is
\* loading, rpcError is set and no message is shown: setRpcError(false);
\* loadMessages() up to its first await
RetryLoading(account) ==
    /\ view[account].selected # <<>>
    /\ ~view[account].loading
    /\ view[account].rpcError
    /\ view[account].messages = <<>>
    /\ InFlight < MaxInFlight
    /\ view' = [view EXCEPT ![account].rpcError = FALSE, ![account].loading = TRUE]
    /\ inflight' = [inflight EXCEPT
                       !.loads = Append(@, LoadOf(account, view[account].selected,
                                                  "retryLoading", "started"))]
    /\ io' = [NoIo EXCEPT !.account = account]
    /\ ret' = Ret("setRpcError", "ok")
    /\ UNCHANGED <<ledger, now, keyring, wallets, cipher>>

\* the timer of a send fires: the loadMessages of the render that sent
\* starts, setLoading(true)
TimerFired(i) ==
    LET load == inflight.loads[i]
    IN  /\ load.stage = "scheduled"
        /\ inflight' = [inflight EXCEPT !.loads[i].stage = "started"]
        /\ view' = [view EXCEPT ![load.account].loading = TRUE]
        /\ io' = [NoIo EXCEPT !.account = load.account]
        /\ ret' = Ret("setTimeout", "ok")
        /\ UNCHANGED <<ledger, now, keyring, wallets, cipher>>

\* getConversationMessages of a started load returns: the logs are those of
\* the ledger as the answering endpoint has it now
LogsRead(i, up, order) ==
    LET load == inflight.loads[i]
        q == QueryConversation(load.account, load.contact, up, order)
    IN  /\ load.stage = "started"
        /\ inflight' = [inflight EXCEPT !.loads[i] =
                           [load EXCEPT !.stage = "read", !.queried = q.queried,
                                        !.answered = q.answered, !.logs = q.out]]
        /\ io' = [account |-> load.account, signed |-> <<>>, queried |-> q.queried,
                  answered |-> q.answered, returned |-> q.out]
        /\ ret' = Ret("getConversationMessages", "ok")
        /\ UNCHANGED <<ledger, now, keyring, view, wallets, cipher>>

\* the rest of loadMessages: deriveEncryptionKeys, the decryption loop, the
\* sort and setMessages, or the catch branch's setRpcError(true) with the
\* messages as they were; finally setLoading(false)
LoadFinished(i, signing) ==
    LET load == inflight.loads[i]
        account == load.account
        conversationMessages == load.logs
        userKeys == keyring[account, signing]
        decryptedMessages ==
            DecryptAll(account, conversationMessages, userKeys.keys.privateKey)
    IN  /\ load.stage = "read"
        /\ view' = [view EXCEPT ![account] =
                       IF userKeys.err = "ok"
                       THEN [@ EXCEPT !.messages = SortByTimestamp(decryptedMessages),
                                      !.contact = load.contact,
                                      !.loading = FALSE]
                       ELSE [@ EXCEPT !.rpcError = TRUE, !.loading = FALSE]]
        /\ inflight' = [inflight EXCEPT !.loads = Without(@, i)]
        /\ io' = [account |-> account, signed |-> userKeys.requests,
                  queried |-> load.queried, answered |-> load.answered,
                  returned |-> load.logs]
        /\ ret' = Ret(load.op, userKeys.err)
        /\ UNCHANGED <<ledger, now, keyring, wallets, cipher>>

\* String.prototype.trim: the white space and line terminators of
\* ECMAScript
IsWhiteSpace(c) ==
    c \in {9, 10, 11, 12, 13, 32, 160, 5760, 8232, 8233, 8239, 8287, 12288, 65279}
          \cup (8192..8202)

RECURSIVE TrimStart(_)
TrimStart(units) ==
    IF units # <<>> /\ IsWhiteSpace(Head(units)) THEN TrimStart(Tail(units)) ELSE units

RECURSIVE TrimEnd(_)
TrimEnd(units) ==
    IF units # <<>> /\ IsWhiteSpace(units[Len(units)])
    THEN TrimEnd(SubSeq(units, 1, Len(units) - 1))
    ELSE units

Trim(units) == TrimEnd(TrimStart(units))

\* MessagingInterface.handleSendMessage is called, by the button or by the
\* Enter key: it returns at once without a selected contact, with a blank
\* text or while sending; else setSending(true) and getPublicKey of the
\* selected contact is asked for
HandleSendMessage(account, messageText, makePermanent) ==
    LET selectedContact == view[account].selected
    IN  /\ selectedContact # <<>>
        /\ Trim(messageText) # <<>>
        /\ ~view[account].sending
        /\ InFlight < MaxInFlight
        /\ messageCounter + Len(inflight.sends) + SendsPending < MaxMessages
        /\ view' = [view EXCEPT ![account].sending = TRUE]
        /\ inflight' = [inflight EXCEPT !.sends =
                           Append(@, [account |-> account,
                                      contact |-> selectedContact,
                                      messageText |-> messageText,
                                      makePermanent |-> makePermanent,
                                      stage |-> "started",
                                      recipientPublicKeyHex |-> <<>>,
                                      encryptedContent |-> TextContent(""),
                                      value |-> 0,
                                      signed |-> <<>>])]
        /\ io' = [NoIo EXCEPT !.account = account]
        /\ ret' = Ret("setSending", "ok")
        /\ UNCHANGED <<ledger, now, keyring, wallets, cipher>>

\* getPublicKey returns the recipient's key as the ledger has it now: with
\* none the handler throws, the failure is alerted and setSending(false)
\* ends it; else deriveEncryptionKeys asks the wallet for a signature
PublicKeyRead(i) ==
    LET send == inflight.sends[i]
        recipientPublicKeyHex == ClientGetPublicKey(ContactAddress[send.contact])
    IN  /\ send.stage = "started"
        /\ IF recipientPublicKeyHex = <<>>
           THEN /\ view' = [view EXCEPT ![send.account].sending = FALSE]
                /\ inflight' = [inflight EXCEPT !.sends = Without(@, i)]
                /\ ret' = Ret("handleSendMessage", "RecipientHasNoKey")
           ELSE /\ inflight' = [inflight EXCEPT !.sends[i] =
                                   [send EXCEPT !.stage = "keyed",
                                                !.recipientPublicKeyHex = recipientPublicKeyHex]]
                /\ ret' = Ret("getPublicKey", "ok")
                /\ UNCHANGED view
        /\ io' = [NoIo EXCEPT !.account = send.account]
        /\ UNCHANGED <<ledger, now, keyring, wallets, cipher>>

\* the wallet answers deriveEncryptionKeys and the message is encrypted
\* under the key that was read; a failure is alerted and setSending(false)
\* ends the handler; else contract.ts sendMessage is called, which asks for
\* the fee of a permanent message and for the wallet's confirmation of any
\* other
MessageEncrypted(i, iv, signing) ==
    LET send == inflight.sends[i]
        senderKeys == keyring[send.account, signing]
        recipientPublicKeyBytes == ParseHexPairs(send.recipientPublicKeyHex)
        encryptedContent == EncryptMessage(send.messageText, recipientPublicKeyBytes, iv)
        err == IF senderKeys.err # "ok" THEN senderKeys.err
               ELSE IF ~ImportableKey(recipientPublicKeyBytes) THEN "FailedToEncrypt"
               ELSE "ok"
    IN  /\ send.stage = "keyed"
        /\ IF err = "ok"
           THEN /\ inflight' = [inflight EXCEPT !.sends[i] =
                                   [send EXCEPT !.stage = IF send.makePermanent THEN "encrypted"
                                                          ELSE "priced",
                                                !.encryptedContent = encryptedContent,
                                                !.signed = senderKeys.requests]]
                /\ ret' = Ret("encryptMessage", "ok")
                /\ UNCHANGED view
           ELSE /\ view' = [view EXCEPT ![send.account].sending = FALSE]
                /\ inflight' = [inflight EXCEPT !.sends = Without(@, i)]
                /\ ret' = Ret("handleSendMessage", err)
        /\ io' = [NoIo EXCEPT !.account = send.account, !.signed = senderKeys.requests]
        /\ UNCHANGED <<ledger, now, keyring, wallets, cipher>>

\* contract.ts sendMessage of a permanent send reads permanentMessageFee:
\* the value is the fee as the ledger has it now
FeeRead(i) ==
    LET send == inflight.sends[i]
    IN  /\ send.stage = "encrypted"
        /\ inflight' = [inflight EXCEPT !.sends[i] =
                           [send EXCEPT !.stage = "priced", !.value = permanentMessageFee]]
        /\ io' = [NoIo EXCEPT !.account = send.account, !.signed = send.signed]
        /\ ret' = Ret("permanentMessageFee", "ok")
        /\ UNCHANGED <<ledger, now, keyring, view, wallets, cipher>>

\* writeContract returns and the rest of handleSendMessage runs: the wallet
\* declines the transaction, which is alerted, or submits it and returns
\* its hash, and setRpcError(false) and setTimeout schedule the loadMessages
\* of the render that sent; finally setSending(false).  The ledger is as it
\* was until the transaction is mined.
SendFinished(i, confirmed) ==
    LET send == inflight.sends[i]
        account == send.account
        err == IF confirmed THEN "ok" ELSE UserRejected
    IN  /\ send.stage = "priced"
        /\ view' = [view EXCEPT ![account].sending = FALSE,
                                ![account].rpcError = IF confirmed THEN FALSE ELSE @]
        /\ inflight' = [inflight EXCEPT
                           !.sends = Without(@, i),
                           !.loads = IF confirmed
                                     THEN Append(@, LoadOf(account, send.contact,
                                                           "loadMessages", "scheduled"))
                                     ELSE @,
                           !.transactions =
                               IF confirmed
                               THEN Append(@, [op |-> "sendMessage",
                                               account |-> account,
                                               recipient |-> ContactAddress[send.contact],
                                               encryptedContent |-> send.encryptedContent,
                                               makePermanent |-> send.makePermanent,
                                               value |-> send.value])
                               ELSE @]
        /\ io' = [NoIo EXCEPT !.account = account, !.signed = send.signed]
        /\ ret' = Ret("handleSendMessage", err)
        /\ UNCHANGED <<ledger, now, keyring, wallets, cipher>>

\* a submitted transaction is mined, an account's transactions in the order
\* it submitted them: the call is applied to the ledger as it is now, and a
\* call that reverts changes nothing
TransactionMined(i) ==
    LET tx == inflight.transactions[i]
    IN  /\ \A j \in 1..(i - 1) : inflight.transactions[j].account # tx.account
        /\ IF tx.op = "registerPublicKey"
           THEN /\ RegisterPublicKeyApplied(tx.account, tx.publicKey)
                /\ ret' = Ret("registerPublicKey", "ok")
                /\ UNCHANGED <<messageCounter, permanentMessages, userPermanentMessages,
                               balance, wallets>>
           ELSE LET r == SendMessageCall(tx.account, tx.recipient, tx.encryptedContent,
                                         tx.makePermanent, tx.value)
                IN  /\ wallets[tx.account] >= tx.value
                    /\ messageCounter' = r.messageCounter
                    /\ events' = r.events
                    /\ permanentMessages' = r.permanentMessages
                    /\ userPermanentMessages' = r.userPermanentMessages
                    /\ balance' = r.balance
                    /\ wallets' = r.wallets
                    /\ ret' = Ret("sendMessage", r.err)
                    /\ UNCHANGED messagingPublicKeys
        /\ inflight' = [inflight EXCEPT !.transactions = Without(@, i)]
        /\ io' = NoIo
        /\ UNCHANGED <<owner, handovers, permanentMessageFee, now, keyring, view, cipher>>

\* no cipher run
NoCipher == [stage |-> "none", message |-> <<>>, key |-> <<>>, otherKey |-> <<>>,
             payload |-> TextContent(""), ok |-> FALSE, text |-> <<>>]

(***************************************************************************)
(* Cipher runs: encryptMessage, then decryptMessage under the same key or  *)
(* under another key                                                       *)
(***************************************************************************)
\* longest message of a cipher run, in code units
MaxTextLen == 2
\* code units of a message: h, e-acute, the euro sign, a high and a low
\* surrogate, the byte order mark
CodeUnits == {104, 233, 8364, 55357, 56832, 65279}
CipherMessages == UNION {[1..n -> CodeUnits] : n \in 0..MaxTextLen}
\* 32-byte keys, as deriveEncryptionKeys gives them
CipherKeys == {WalletKeys[Alice].privateKey, WalletKeys[Bob].privateKey}

CipherInputs ==
    {[stage |-> "input", message |-> m, key |-> k, otherKey |-> k2,
      payload |-> TextContent(""), ok |-> FALSE, text |-> <<>>] :
        m \in CipherMessages, k \in CipherKeys, k2 \in CipherKeys}

DecryptionFailed == "Failed to decrypt message"
\* the error decryptMessage throws: `Failed to decrypt message: ${error}`
Thrown(error) == DecryptionFailed \o ": " \o error

Encrypt(iv) ==
    /\ cipher.stage = "input"
    /\ cipher' = [cipher EXCEPT !.stage = "encrypted",
                                !.payload = EncryptMessage(cipher.message, cipher.key, iv)]
    /\ ret' = Ret("encryptMessage", "ok")
    /\ UNCHANGED <<ledger, now, keyring, view, wallets, io, inflight>>

\* decryptMessage under a key: the text returned, or the error thrown
Opened(payload, key) ==
    LET d == DecryptMessage(payload, key)
    IN  [ok |-> d.ok, text |-> IF d.ok THEN d.text ELSE <<>>,
         err |-> IF d.ok THEN "ok" ELSE Thrown(d.error)]

Decrypt ==
    LET d == Opened(cipher.payload, cipher.key)
    IN  /\ cipher.stage = "encrypted"
        /\ cipher' = [cipher EXCEPT !.stage = "opened", !.ok = d.ok, !.text = d.text]
        /\ ret' = Ret("decryptMessage", d.err)
        /\ UNCHANGED <<ledger, now, keyring, view, wallets, io, inflight>>

DecryptWithOtherKey ==
    LET d == Opened(cipher.payload, cipher.otherKey)
    IN  /\ cipher.stage = "encrypted"
        /\ cipher' = [cipher EXCEPT !.stage = "openedOther", !.ok = d.ok, !.text = d.text]
        /\ ret' = Ret("decryptMessage", d.err)
        /\ UNCHANGED <<ledger, now, keyring, view, wallets, io, inflight>>

\* what can happen to a payload between encryptMessage and decryptMessage
Damages == {"tampered", "truncated", "legacy"}

\* the payload reaches the reader altered
Damage(kind) ==
    /\ cipher.stage = "encrypted"
    /\ cipher' = [cipher EXCEPT !.stage = "damaged",
                                !.payload = IF kind = "tampered" THEN Tampered(@)
                                            ELSE IF kind = "truncated" THEN Truncated(@)
                                            ELSE Legacy(@)]
    /\ UNCHANGED <<ledger, now, keyring, ret, view, wallets, io, inflight>>

\* decryptMessage of the altered payload under the key it was written for
DecryptDamaged ==
    LET d == Opened(cipher.payload, cipher.key)
    IN  /\ cipher.stage = "damaged"
        /\ cipher' = [cipher EXCEPT !.stage = "openedDamaged", !.ok = d.ok, !.text = d.text]
        /\ ret' = Ret("decryptMessage", d.err)
        /\ UNCHANGED <<ledger, now, keyring, view, wallets, io, inflight>>

(***************************************************************************)
(* Specifications                                                          *)
(***************************************************************************)
\* the state after deployment and initialize(InitialFee) by the deployer
Deployed ==
    /\ keyring = DerivedKeys
    /\ owner = Deployer
    /\ handovers = {}
    /\ messagingPublicKeys = [a \in Addresses |-> Bytes32Zero]
    /\ permanentMessages = <<>>
    /\ userPermanentMessages = [a \in Addresses |-> <<>>]
    /\ messageCounter = 0
    /\ permanentMessageFee = InitialFee
    /\ balance = 0
    /\ events = <<>>
    /\ now = 0
    /\ ret = Ret("initialize", "ok")
    /\ view = [a \in Accounts |-> NoView]
    /\ io = NoIo
    /\ inflight = NoInflight
    /\ wallets = [a \in Addresses \cup {Deployer, TestContract} |->
                      IF a \in Accounts THEN Funds ELSE 0]

Init == Deployed /\ cipher = NoCipher

\* the ledger under direct calls
Next ==
    \/ \E caller \in Senders, k \in DirectKeys : RegisterPublicKey(caller, k)
    \/ \E caller \in Senders, r \in Recipients, c \in DirectContents, a \in SendArgs :
          SendMessage(caller, r, c, a[1], a[2])
    \/ \E caller \in Readers, id \in KnownIds : GetMessage(caller, id)
    \/ \E caller \in Readers, id \in KnownIds : PermanentMessagesGetter(caller, id)
    \/ \E u \in Accounts : GetUserPermanentMessages(u)
    \/ \E caller \in AdminCallers, f \in Fees : SetPermanentMessageFee(caller, f)

Spec == Init /\ [][Next]_vars

\* the ledger under direct calls, with the clock
TimedNext == Next \/ Tick

TimedSpec == Init /\ [][TimedNext]_vars

\* an account registers until a registration of its own is submitted
Unregistered(a) == ~IsRegistered(a) /\ ~RegistrationPending(a)

\* texts of only white space, which handleSendMessage does not send
BlankTexts == {<<>>, <<32, 32>>}

\* the ledger's order of the logs a started load asks for
LedgerOrder(i) ==
    LogOrder(Len(GetConversationMessages(inflight.loads[i].account, inflight.loads[i].contact)))

\* who selects whom: each sender the other
Selections == {<<Alice, AccountStrings[Bob]>>, <<Bob, AccountStrings[Alice]>>}
\* and Alice herself
ClientSelections == Selections \cup {<<Alice, AccountStrings[Alice]>>}

\* the ledger driven by the senders' clients, whose steps interleave; a
\* load's query is answered by the first endpoint or by none
ClientNext ==
    \/ \E a \in Senders : Unregistered(a) /\ HandleRegister(a)
    \/ \E i \in 1..Len(inflight.registers) : KeysDerived(i, "text")
    \/ \E i \in 1..Len(inflight.registers), confirmed \in BOOLEAN : RegisterFinished(i, confirmed)
    \/ \E x \in ClientSelections : SelectContact(x[1], x[2])
    \/ \E a \in Senders, t \in Plaintexts \cup BlankTexts, p \in BOOLEAN :
          HandleSendMessage(a, t, p)
    \/ \E i \in 1..Len(inflight.sends) : PublicKeyRead(i)
    \/ \E i \in 1..Len(inflight.sends), iv \in Nonces : MessageEncrypted(i, iv, "text")
    \/ \E i \in 1..Len(inflight.sends) : FeeRead(i)
    \/ \E i \in 1..Len(inflight.sends), confirmed \in BOOLEAN : SendFinished(i, confirmed)
    \/ \E i \in 1..Len(inflight.transactions) : TransactionMined(i)
    \/ \E i \in 1..Len(inflight.loads) : TimerFired(i)
    \/ \E i \in 1..Len(inflight.loads), up \in {AllUp, AllDown} :
          LogsRead(i, up, LedgerOrder(i))
    \/ \E i \in 1..Len(inflight.loads) : LoadFinished(i, "text")

ClientSpec == Init /\ [][ClientNext]_vars

\* the ledger under first registrations, sends and fee changes
AdminNext ==
    \/ \E caller \in Senders : ~IsRegistered(caller) /\ RegisterPublicKey(caller, TestKey)
    \/ \E caller \in Senders, r \in Recipients, c \in DirectContents, a \in SendArgs :
          SendMessage(caller, r, c, a[1], a[2])
    \/ \E caller \in AdminCallers, f \in Fees : SetPermanentMessageFee(caller, f)

AdminSpec == Init /\ [][AdminNext]_vars

\* cap on the ether an account attaches to the inherited calls: MaxMessages
\* units
Affords(caller, value) == value > 0 => Funds - wallets[caller] < MaxMessages

\* the owner's functions, the contract's own and the inherited ones, called
\* by the deployer and by Alice, with Alice's sends to her own address
OwnershipNext ==
    \/ ~IsRegistered(Alice) /\ RegisterPublicKey(Alice, TestKey)
    \/ \E a \in SendArgs : \E c \in DirectContents : SendMessage(Alice, Alice, c, a[1], a[2])
    \/ \E caller \in AdminCallers, f \in Fees : Initialize(caller, f)
    \/ \E caller \in AdminCallers, f \in Fees : SetPermanentMessageFee(caller, f)
    \/ \E caller \in AdminCallers : WithdrawFees(caller)
    \/ \E caller \in AdminCallers, n \in NewOwners, v \in Values :
          Affords(caller, v) /\ TransferOwnership(caller, n, v)
    \/ \E caller \in AdminCallers, v \in Values :
          Affords(caller, v) /\ RenounceOwnership(caller, v)
    \/ \E caller \in AdminCallers, v \in Values :
          Affords(caller, v) /\ RequestOwnershipHandover(caller, v)
    \/ \E caller \in AdminCallers, v \in Values :
          Affords(caller, v) /\ CancelOwnershipHandover(caller, v)
    \/ \E caller \in AdminCallers, n \in AdminCallers, v \in Values :
          Affords(caller, v) /\ CompleteOwnershipHandover(caller, n, v)
    \/ \E caller \in AdminCallers, v \in Values :
          Affords(caller, v) /\ UpgradeToAndCall(caller, v)

OwnershipSpec == Init /\ [][OwnershipNext]_vars

\* callers of initialize and withdrawFees: the deployer, Alice and the test
\* contract
TreasuryCallers == {Deployer, Alice, TestContract}
\* (makePermanent, value) of Alice's sends: with and without ether attached
TreasurySends == BOOLEAN \X Values

\* the contract's ether: Alice's sends to her own address with and without
\* value, initialize, the fee and withdrawFees called by the deployer, by
\* Alice and by the test contract
TreasuryNext ==
    \/ ~IsRegistered(Alice) /\ RegisterPublicKey(Alice, TestKey)
    \/ \E a \in TreasurySends : \E c \in DirectContents :
          SendMessage(Alice, Alice, c, a[1], a[2])
    \/ \E caller \in TreasuryCallers, f \in Fees : Initialize(caller, f)
    \/ \E caller \in TreasuryCallers, f \in Fees : SetPermanentMessageFee(caller, f)
    \/ \E caller \in TreasuryCallers : WithdrawFees(caller)

TreasurySpec == Init /\ [][TreasuryNext]_vars

\* permanent storage over time: registrations that change the record, sends
\* between the senders, the owner's fee changes and withdrawals, Alice's
\* reads, and the clock
StorageNext ==
    \/ \E caller \in Senders, k \in DirectKeys :
          k # messagingPublicKeys[caller] /\ RegisterPublicKey(caller, k)
    \/ \E caller \in Senders : \E r \in Senders \ {caller}, c \in DirectContents, p \in BOOLEAN :
          SendMessage(caller, r, c, p, IF p THEN InitialFee ELSE 0)
    \/ \E f \in Fees : SetPermanentMessageFee(Deployer, f)
    \/ WithdrawFees(Deployer)
    \/ \E id \in KnownIds : GetMessage(Alice, id)
    \/ Tick

StorageSpec == Init /\ [][StorageNext]_vars

\* endpoint outcomes of a session's loads: the first k endpoints fail and
\* the others answer, for no, two and all endpoints
FailingFirst == {[i \in 1..Endpoints |-> i > k] : k \in {0, 2, Endpoints}}

\* client sessions of the senders, whose steps interleave: every outcome of
\* the signing and the read endpoints failing one after the other
SessionNext ==
    \/ \E a \in Senders : Unregistered(a) /\ HandleRegister(a)
    \/ \E i \in 1..Len(inflight.registers), f \in SignOutcomes : KeysDerived(i, f)
    \/ \E i \in 1..Len(inflight.registers), confirmed \in BOOLEAN : RegisterFinished(i, confirmed)
    \/ \E x \in Selections : SelectContact(x[1], x[2])
    \/ \E a \in Senders, t \in Plaintexts : HandleSendMessage(a, t, FALSE)
    \/ \E i \in 1..Len(inflight.sends) : PublicKeyRead(i)
    \/ \E i \in 1..Len(inflight.sends), iv \in Nonces, f \in SignOutcomes :
          MessageEncrypted(i, iv, f)
    \/ \E i \in 1..Len(inflight.sends), confirmed \in BOOLEAN : SendFinished(i, confirmed)
    \/ \E i \in 1..Len(inflight.transactions) : TransactionMined(i)
    \/ \E i \in 1..Len(inflight.loads) : TimerFired(i)
    \/ \E i \in 1..Len(inflight.loads), up \in FailingFirst : LogsRead(i, up, LedgerOrder(i))
    \/ \E i \in 1..Len(inflight.loads), f \in SignOutcomes : LoadFinished(i, f)
    \/ \E a \in Senders : RetryLoading(a)

SessionSpec == Init /\ [][SessionNext]_vars

\* transcripts over time: sends between the senders in different blocks and
\* loads whose query lists the logs in any order
TranscriptNext ==
    \/ \E a \in Senders : Unregistered(a) /\ HandleRegister(a)
    \/ \E i \in 1..Len(inflight.registers) : KeysDerived(i, "text")
    \/ \E i \in 1..Len(inflight.registers) : RegisterFinished(i, TRUE)
    \/ \E a \in Senders :
          SelectContact(a, AccountStrings[CHOOSE c \in Senders : c # a])
    \/ \E a \in Senders, t \in Plaintexts : HandleSendMessage(a, t, FALSE)
    \/ \E i \in 1..Len(inflight.sends) : PublicKeyRead(i)
    \/ \E i \in 1..Len(inflight.sends), iv \in Nonces : MessageEncrypted(i, iv, "text")
    \/ \E i \in 1..Len(inflight.sends) : SendFinished(i, TRUE)
    \/ \E i \in 1..Len(inflight.transactions) : TransactionMined(i)
    \/ Tick
    \/ \E i \in 1..Len(inflight.loads) : TimerFired(i)
    \/ \E i \in 1..Len(inflight.loads) :
          \E order \in Orders(Len(GetConversationMessages(inflight.loads[i].account,
                                                          inflight.loads[i].contact))) :
              LogsRead(i, AllUp, order)
    \/ \E i \in 1..Len(inflight.loads) : LoadFinished(i, "text")

TranscriptSpec == Init /\ [][TranscriptNext]_vars

\* keys on the wire: registrations of 32-byte keys through the client and
\* key reads
WireNext ==
    \/ \E a \in Senders, k \in WireKeys :
          /\ Len(Registrations(events)) + Len(inflight.transactions) < MaxRegistrations
          /\ ClientRegisterPublicKey(a, k)
    \/ \E i \in 1..Len(inflight.transactions) : TransactionMined(i)
    \/ \E a \in Accounts : ReadPublicKey(a)

WireSpec == Init /\ [][WireNext]_vars

\* cipher runs over every message and pair of keys
CipherInit == Deployed /\ cipher \in CipherInputs

CipherNext ==
    \/ \E iv \in Nonces : Encrypt(iv)
    \/ Decrypt
    \/ DecryptWithOtherKey

\* the sends and loads of Alice's component, permanent or not, whose steps
\* interleave with each other and with the owner's fee changes
FeeRaceNext ==
    \/ \E a \in Senders : Unregistered(a) /\ HandleRegister(a)
    \/ \E i \in 1..Len(inflight.registers) : KeysDerived(i, "text")
    \/ \E i \in 1..Len(inflight.registers) : RegisterFinished(i, TRUE)
    \/ \E c \in SessionContacts : SelectContact(Alice, c)
    \/ \E t \in Plaintexts, p \in BOOLEAN : HandleSendMessage(Alice, t, p)
    \/ \E i \in 1..Len(inflight.sends) : PublicKeyRead(i)
    \/ \E i \in 1..Len(inflight.sends), iv \in Nonces : MessageEncrypted(i, iv, "text")
    \/ \E i \in 1..Len(inflight.sends) : FeeRead(i)
    \/ \E i \in 1..Len(inflight.sends) : SendFinished(i, TRUE)
    \/ \E i \in 1..Len(inflight.transactions) : TransactionMined(i)
    \/ \E i \in 1..Len(inflight.loads) : TimerFired(i)
    \/ \E i \in 1..Len(inflight.loads) : LogsRead(i, AllUp, LedgerOrder(i))
    \/ \E i \in 1..Len(inflight.loads) : LoadFinished(i, "text")
    \/ \E f \in Fees : SetPermanentMessageFee(Deployer, f)

FeeRaceSpec == Init /\ [][FeeRaceNext]_vars

\* Alice's component: contacts selected and messages sent while loads are
\* scheduled or running
LoadRaceNext ==
    \/ \E a \in Senders : Unregistered(a) /\ HandleRegister(a)
    \/ \E i \in 1..Len(inflight.registers) : KeysDerived(i, "text")
    \/ \E i \in 1..Len(inflight.registers) : RegisterFinished(i, TRUE)
    \/ \E c \in SessionContacts : SelectContact(Alice, c)
    \/ \E t \in Plaintexts : HandleSendMessage(Alice, t, FALSE)
    \/ \E i \in 1..Len(inflight.sends) : PublicKeyRead(i)
    \/ \E i \in 1..Len(inflight.sends), iv \in Nonces : MessageEncrypted(i, iv, "text")
    \/ \E i \in 1..Len(inflight.sends) : SendFinished(i, TRUE)
    \/ \E i \in 1..Len(inflight.transactions) : TransactionMined(i)
    \/ \E i \in 1..Len(inflight.loads) : TimerFired(i)
    \/ \E i \in 1..Len(inflight.loads) : LogsRead(i, AllUp, LedgerOrder(i))
    \/ \E i \in 1..Len(inflight.loads) : LoadFinished(i, "text")

LoadRaceSpec == Init /\ [][LoadRaceNext]_vars

CipherSpec == CipherInit /\ [][CipherNext]_vars

\* cipher runs in which the payload is read under another key or reaches
\* the reader altered
DamageNext ==
    \/ \E iv \in Nonces : Encrypt(iv)
    \/ DecryptWithOtherKey
    \/ \E kind \in Damages : Damage(kind)
    \/ DecryptDamaged

DamageSpec == CipherInit /\ [][DamageNext]_vars

(***************************************************************************)
(* Properties of sendMessage                                               *)
(***************************************************************************)
\* a call result that leaves the ledger as it is
NoEffect(res) ==
    /\ res.messageCounter = messageCounter
    /\ res.events = events
    /\ res.permanentMessages = permanentMessages
    /\ res.userPermanentMessages = userPermanentMessages
    /\ res.balance = balance
    /\ res.wallets = wallets


ConversationEvents == SelectSeq(events, LAMBDA e : e.name = "ConversationMessage")

\* the MessageId a successful call emits
EmittedId(res) == res.events[Len(events) + 1].messageId

\* C1: in every reachable state a sendMessage from a sender whose record is
\* zero fails with NotRegistered and leaves messageCounter, the log, the
\* permanent storage and every per-user list unchanged, whatever the
\* recipient, the makePermanent flag and the value paid.
C1_UnregisteredSenderRejected ==
    \A s \in Accounts, r \in Addresses, c \in DirectContents, p \in BOOLEAN, v \in Values :
        ~IsRegistered(s) =>
            LET res == SendMessageCall(s, r, c, p, v)
            IN  res.err = "NotRegistered" /\ NoEffect(res)

C1_Witness ==
    /\ ret = Ret("sendMessage", "NotRegistered")
    /\ messageCounter > 0
    /\ \E s \in Senders, r \in Accounts : ~IsRegistered(s) /\ IsRegistered(r)

\* C2: a sendMessage from a registered sender to a recipient whose record
\* is zero fails with RecipientNotRegistered and changes no state, for both
\* makePermanent values and any value paid.
C2_UnregisteredRecipientRejected ==
    \A s \in Accounts, r \in Addresses, c \in DirectContents, p \in BOOLEAN, v \in Values :
        (IsRegistered(s) /\ ~IsRegistered(r)) =>
            LET res == SendMessageCall(s, r, c, p, v)
            IN  res.err = "RecipientNotRegistered" /\ NoEffect(res)

C2_Witness ==
    /\ ret = Ret("sendMessage", "RecipientNotRegistered")
    /\ messageCounter > 0
    /\ \E s \in Senders, r \in Accounts : IsRegistered(s) /\ ~IsRegistered(r)

\* C3: between registered parties a permanent send paying less than the
\* current permanentMessageFee fails with InsufficientFee and has no side
\* effect; from a fresh state every permanent-message list stays empty.
C3_InsufficientFeeRejected ==
    /\ \A s \in Accounts, r \in Accounts, c \in DirectContents, v \in Values :
          (IsRegistered(s) /\ IsRegistered(r) /\ v < permanentMessageFee) =>
              LET res == SendMessageCall(s, r, c, TRUE, v)
              IN  res.err = "InsufficientFee" /\ NoEffect(res)
    /\ (ret = Ret("sendMessage", "InsufficientFee") /\ messageCounter = 0) =>
          \A a \in Accounts : GetUserPermanentMessagesCall(a).out = <<>>

C3_Witness ==
    /\ ret = Ret("sendMessage", "InsufficientFee")
    /\ messageCounter = 0
    /\ IsRegistered(Alice) /\ IsRegistered(Bob)
    /\ GetUserPermanentMessagesCall(Alice).out = <<>>

\* C4: between distinct registered parties a permanent send paying at
\* least the current fee succeeds, writes one permanent record under a new
\* MessageId and appends that id to the end of both parties' lists; the
\* first such send leaves both lists holding exactly that one id.
C4_PermanentSendStoresAndIndexes ==
    \A s \in Accounts, r \in Accounts, c \in DirectContents, v \in Values :
        (s # r /\ IsRegistered(s) /\ IsRegistered(r) /\ v >= permanentMessageFee) =>
            LET res == SendMessageCall(s, r, c, TRUE, v)
                id == EmittedId(res)
            IN  /\ res.err = "ok"
                /\ id \notin DOMAIN permanentMessages
                /\ DOMAIN res.permanentMessages = DOMAIN permanentMessages \cup {id}
                /\ res.permanentMessages[id].sender = s
                /\ res.permanentMessages[id].recipient = r
                /\ res.permanentMessages[id].encryptedContent = c
                /\ res.userPermanentMessages[s] = Append(userPermanentMessages[s], id)
                /\ res.userPermanentMessages[r] = Append(userPermanentMessages[r], id)
                /\ (messageCounter = 0 =>
                       /\ res.userPermanentMessages[s] = <<id>>
                       /\ res.userPermanentMessages[r] = <<id>>)

C4_Witness ==
    /\ ret = Ret("sendMessage", "ok")
    /\ messageCounter = 1
    /\ balance = permanentMessageFee /\ permanentMessageFee > 0
    /\ Len(userPermanentMessages[Alice]) = 1
    /\ userPermanentMessages[Bob] = userPermanentMessages[Alice]
    /\ userPermanentMessages[Alice][1] \in DOMAIN permanentMessages

\* C5: any two successful sends carry distinct MessageIds, also when
\* sender, recipient, content and timestamp are the same, and no permanent
\* send overwrites a permanent record.
C5_MessageIdsDistinct ==
    /\ \A i, j \in 1..Len(ConversationEvents) :
          i # j => ConversationEvents[i].messageId # ConversationEvents[j].messageId
    /\ \A s \in Accounts, r \in Accounts, c \in DirectContents, p \in BOOLEAN, v \in Values :
          LET res == SendMessageCall(s, r, c, p, v)
          IN  res.err = "ok" =>
                /\ \A i \in 1..Len(ConversationEvents) :
                      ConversationEvents[i].messageId # EmittedId(res)
                /\ EmittedId(res) \notin DOMAIN permanentMessages
                /\ \A k \in DOMAIN permanentMessages :
                      res.permanentMessages[k] = permanentMessages[k]

C5_Witness ==
    /\ Len(ConversationEvents) = 2
    /\ ConversationEvents[1].sender = ConversationEvents[2].sender
    /\ ConversationEvents[1].recipient = ConversationEvents[2].recipient
    /\ ConversationEvents[1].encryptedContent = ConversationEvents[2].encryptedContent
    /\ ConversationEvents[1].timestamp = ConversationEvents[2].timestamp
    /\ ConversationEvents[1].isPermanent /\ ConversationEvents[2].isPermanent
    /\ Cardinality(DOMAIN permanentMessages) = 2

(***************************************************************************)
(* Properties of the reads                                                 *)
(***************************************************************************)
ThirdParty(caller, id) ==
    /\ caller # permanentMessages[id].sender
    /\ caller # permanentMessages[id].recipient

\* C6: for every stored permanent message, getMessage called by an account
\* that is neither its sender nor its recipient fails with
\* UnauthorizedAccess and returns no message data.
C6_GetMessageRefusesThirdParty ==
    \A id \in DOMAIN permanentMessages, caller \in Accounts \cup {Deployer} :
        ThirdParty(caller, id) =>
            /\ GetMessageCall(caller, id).err = "UnauthorizedAccess"
            /\ GetMessageCall(caller, id).out = ZeroMessage

C6_Witness ==
    /\ ret = Ret("getMessage", "UnauthorizedAccess")
    /\ \E id \in DOMAIN permanentMessages : ThirdParty(Charlie, id)

\* C7: no public read of the contract returns the fields of a permanent
\* message to a caller who is neither its sender nor its recipient:
\* getMessage, the public permanentMessages getter and
\* getUserPermanentMessages alike.
C7_NoReadExposesFields ==
    \A id \in DOMAIN permanentMessages, caller \in Accounts \cup {Deployer} :
        ThirdParty(caller, id) =>
            /\ GetMessageCall(caller, id).out = ZeroMessage
            /\ PermanentMessagesGetterCall(caller, id).out = ZeroMessage

(***************************************************************************)
(* Properties of the client paths                                          *)
(***************************************************************************)
\* what an account can read from the ledger: every key record, as
\* getPublicKey returns it and the send path parses it
PublicKeyRecords == {ParseHexPairs(ClientGetPublicKey(x)) : x \in Accounts}

\* C8: an account that is neither the sender nor the recipient of a message
\* sent through the client, knowing its own key and the publicly readable
\* key records and event contents, cannot decrypt the message.
C8_OnlyParticipantsDecrypt ==
    \A i \in 1..Len(ConversationEvents), c \in Accounts :
        LET e == ConversationEvents[i]
        IN  (c # e.sender /\ c # e.recipient) =>
                \A k \in PublicKeyRecords \cup {WalletKeys[c].privateKey} :
                    ~DecryptMessage(e.encryptedContent, k).ok

\* C9: for every message sent through the client from A to B, A # B with
\* different derived keys, both A and B obtain the plaintext when they load
\* the conversation; neither transcript shows the placeholder.
C9_BothPartiesReadPlaintext ==
    \A a \in Accounts : \A i \in 1..Len(view[a].messages) :
        LET m == view[a].messages[i]
        IN  (/\ m.event.sender # m.event.recipient
             /\ a \in {m.event.sender, m.event.recipient}
             /\ WalletKeys[m.event.sender].privateKey
                    # WalletKeys[m.event.recipient].privateKey) =>
                /\ m.decryptedContent = TextDecode(m.event.encryptedContent.pt)
                /\ m.decryptedContent # FailedToDecrypt

\* createConversationHash gives one hash for both argument orders, for
\* every account and contact string
ClientHashSymmetric ==
    \A a \in Accounts, c \in ContactStrings :
        CreateConversationHash(AccountString(a), c) = CreateConversationHash(c, AccountString(a))

\* C10: conversationId(A,B) = conversationId(B,A): sends in the two
\* directions are logged under one conversationHash, the client's
\* createConversationHash gives the same hash for both argument orders, and
\* so both parties' conversation queries return the same entries.
C10_ConversationIdSymmetric ==
    /\ \A i, j \in 1..Len(ConversationEvents) :
          (/\ ConversationEvents[i].sender = ConversationEvents[j].recipient
           /\ ConversationEvents[i].recipient = ConversationEvents[j].sender) =>
              ConversationEvents[i].conversationHash = ConversationEvents[j].conversationHash
    /\ ClientHashSymmetric
    /\ GetConversationMessages(Alice, AccountString(Bob))
          = GetConversationMessages(Bob, AccountString(Alice))

C10_Witness ==
    /\ \E i, j \in 1..Len(ConversationEvents) :
          /\ ConversationEvents[i].sender = Alice /\ ConversationEvents[i].recipient = Bob
          /\ ConversationEvents[j].sender = Bob /\ ConversationEvents[j].recipient = Alice
    /\ view[Bob].contact = AccountString(Alice)
    /\ Len(view[Bob].messages) = 2

(***************************************************************************)
(* Properties of conversation addressing                                   *)
(***************************************************************************)
\* addresses hashed by both sides: the accounts and two addresses with
\* letters, 0x..ab and 0x..ba
HashedAddresses == Accounts \cup {171, 186}

\* createConversationHash of any spellings of a and b equals the hash the
\* contract computes for a send between a and b
ClientHashMatchesContract ==
    \A a \in HashedAddresses, b \in HashedAddresses :
        \A sa \in Spellings(a), sb \in Spellings(b) :
            CreateConversationHash(sa, sb) = ConversationHashOf(a, b)

\* C11: for every pair of accounts, the pair A,A and mixed-case spellings
\* included, createConversationHash orders the pair as the contract does and
\* hashes the same packed bytes: the client's identifier equals the
\* conversationHash of every message the contract logs for the pair.
C11_ClientHashEqualsContractHash ==
    /\ ClientHashMatchesContract
    /\ \A i \in 1..Len(ConversationEvents) :
          LET e == ConversationEvents[i]
          IN  /\ e.conversationHash = ConversationHashes[e.sender, AccountStrings[e.recipient]]
              /\ e.conversationHash = ConversationHashes[e.recipient, AccountStrings[e.sender]]

C11_Witness ==
    /\ Len(ConversationEvents) = 2
    /\ ConversationEvents[1].sender = Alice /\ ConversationEvents[1].recipient = Alice
    /\ ConversationEvents[2].sender = Bob /\ ConversationEvents[2].recipient = Alice
    /\ ConversationEvents[2].conversationHash
          = CreateConversationHash(AccountString(Alice), AccountString(Bob))

\* the log entries of the sends between a and b, in either direction
SendsBetween(a, b) ==
    SelectSeq(events, LAMBDA e : /\ e.name = "ConversationMessage"
                                 /\ {e.sender, e.recipient} = {a, b})

\* the load whose conversation query has just returned asked for the
\* conversation of its account with account b
JustRead(b) ==
    \E i \in 1..Len(inflight.loads) :
        /\ inflight.loads[i].stage = "read"
        /\ inflight.loads[i].account = io.account
        /\ inflight.loads[i].contact = AccountStrings[b]
        /\ inflight.loads[i].logs = io.returned
        /\ inflight.loads[i].answered = io.answered

\* every successful send is logged once, and the log filtered as the query
\* filters it holds the sends between a and b and no other
LogHoldsTheConversations ==
    /\ Len(ConversationEvents) = messageCounter
    /\ \A a \in Accounts, b \in Accounts :
          GetConversationMessages(a, AccountStrings[b]) = SendsBetween(a, b)

\* the statement for every conversation query, whether an endpoint answers
\* it or none does
C12_QueryReturnsEverySend ==
    /\ LogHoldsTheConversations
    /\ ret.op = "getConversationMessages" =>
          \E b \in Accounts : JustRead(b) /\ io.returned = SendsBetween(io.account, b)

\* C12: after any sequence of registrations and sends, the conversation
\* query for (A,B), when an endpoint answers it, returns exactly the
\* successful sends between A and B in either direction, one entry per
\* send, ephemeral or permanent, and no send involving another account;
\* when no endpoint answers, it returns no entry.
C12_QueryReturnsTheConversation ==
    /\ LogHoldsTheConversations
    /\ ret.op = "getConversationMessages" =>
          \E b \in Accounts :
              /\ JustRead(b)
              /\ io.answered # 0 => io.returned = SendsBetween(io.account, b)
              /\ io.answered = 0 => io.returned = <<>>

\* Bob's query, answered by the first endpoint, returns the one ephemeral
\* send from Alice to Bob, which Alice's query returns too
C12_Witness ==
    /\ ret.op = "getConversationMessages"
    /\ io.account = Bob /\ io.answered = 1
    /\ JustRead(Alice)
    /\ messageCounter = 1
    /\ Len(io.returned) = 1
    /\ io.returned[1].sender = Alice /\ io.returned[1].recipient = Bob
    /\ ~io.returned[1].isPermanent
    /\ io.returned = QueryConversation(Alice, AccountStrings[Bob], AllUp, LogOrder(1)).out
    /\ Len(view[Alice].messages) = 1 /\ view[Alice].messages[1].isFromMe
    /\ GetConversationMessages(Charlie, AccountStrings[Bob]) = <<>>

(***************************************************************************)
(* Properties of the cipher                                                *)
(***************************************************************************)
\* the statement for every message, well formed or not
C13_RoundTripEveryText ==
    cipher.stage = "opened" => cipher.ok /\ cipher.text = cipher.message

\* C13: for every message that is well-formed text (every surrogate paired,
\* no leading byte order mark) and every 32-byte key, decryptMessage of the
\* encryptMessage payload under the same key returns exactly the message,
\* and the payload always takes the {iv, data} decoding path.
C13_RoundTrip ==
    /\ (cipher.stage = "opened" /\ WellFormedText(cipher.message)) =>
          /\ cipher.ok
          /\ cipher.text = cipher.message
          /\ ret = Ret("decryptMessage", "ok")
    /\ cipher.stage \in {"encrypted", "opened", "openedOther"} =>
          cipher.payload.fmt = "aes"

C13_Witness ==
    /\ cipher.stage = "opened"
    /\ cipher.message = <<55357, 56832>>
    /\ Len(cipher.payload.pt) = 4
    /\ cipher.text = cipher.message

\* C14: for every message and every pair of different keys, decryptMessage
\* under the second key of a payload encrypted under the first fails with
\* the decryption error and returns no text.
C14_WrongKeyFails ==
    (cipher.stage = "openedOther" /\ cipher.key # cipher.otherKey) =>
        /\ ~cipher.ok
        /\ cipher.text = <<>>
        /\ ret = Ret("decryptMessage", Thrown("OperationError"))

C14_Witness ==
    /\ cipher.stage = "openedOther"
    /\ cipher.key # cipher.otherKey
    /\ Len(cipher.message) = MaxTextLen
    /\ ~cipher.ok

(***************************************************************************)
(* Properties of the registry                                              *)
(***************************************************************************)
\* key material of registerPublicKey calls: zero, the test key and a
\* derived record
RegistryKeys == DirectKeys \cup {RegistrationRecords[Bob]}

\* C15: after registerPublicKey(k) by X, getPublicKey(X) returns k whatever
\* the record was; registering the same k again leaves the registry as it
\* is, and registering another k' overwrites, so that k is no longer
\* returned; no other account's record changes.
C15_RegisterOverwrites ==
    \A x \in Accounts, k \in RegistryKeys, k2 \in RegistryKeys :
        LET first == RegisterKey(messagingPublicKeys, x, k)
            again == RegisterKey(first, x, k)
            other == RegisterKey(first, x, k2)
        IN  /\ PublicKeyOf(first, x) = k
            /\ again = first
            /\ PublicKeyOf(other, x) = k2
            /\ (k2 # k => PublicKeyOf(other, x) # k)
            /\ \A y \in Addresses \ {x} :
                  PublicKeyOf(first, y) = PublicKeyOf(messagingPublicKeys, y)

C15_Witness ==
    /\ ret = Ret("registerPublicKey", "ok")
    /\ PublicKeyOf(messagingPublicKeys, Alice) = TestKey
    /\ PublicKeyOf(messagingPublicKeys, Bob) = Bytes32Zero
    /\ \E i \in 1..Len(ConversationEvents) :
          ConversationEvents[i].sender = Alice /\ ConversationEvents[i].recipient = Bob

\* C16: a record is never deleted: once isRegistered(X) is true it is true
\* in every later state, whatever key material X registers.
C16_RegistrationPermanent ==
    [][\A x \in Accounts : IsRegistered(x) => IsRegistered(x)']_vars

(***************************************************************************)
(* Properties of the owner's functions                                     *)
(***************************************************************************)
OwnerOnlyCalls ==
    \A caller \in AdminCallers \cup Accounts, f \in Fees :
        LET fee == SetPermanentMessageFeeCall(caller, f)
            paid == WithdrawFeesCall(caller)
        IN  IF caller # owner
            THEN /\ fee.err = "Unauthorized"
                 /\ fee.permanentMessageFee = permanentMessageFee
                 /\ paid.err = "Unauthorized"
                 /\ paid.balance = balance
                 /\ paid.wallets = wallets
            ELSE /\ fee.err = "ok"
                 /\ fee.permanentMessageFee = f

OwnerOnlySteps ==
    /\ (ret'.op \in {"setPermanentMessageFee", "withdrawFees"} /\ ret'.err = "Unauthorized") =>
          UNCHANGED <<ledger, wallets>>
    /\ (ret'.op = "setPermanentMessageFee" /\ ret'.err = "ok") =>
          UNCHANGED <<owner, handovers, messagingPublicKeys, permanentMessages, userPermanentMessages,
                      messageCounter, balance, events, wallets>>

\* C17: setPermanentMessageFee and withdrawFees called by an account other
\* than the owner fail and leave the fee, the balance and all other state
\* unchanged; setPermanentMessageFee(newFee) by the owner sets the fee to
\* newFee and changes nothing else.
C17_OwnerOnly == []OwnerOnlyCalls /\ [][OwnerOnlySteps]_vars

C17_Witness ==
    /\ ret = Ret("withdrawFees", "Unauthorized")
    /\ balance > 0
    /\ owner = Deployer
    /\ permanentMessageFee # InitialFee

\* C18: after any calls by any accounts, initialize included, the owner is
\* the account that initialized the contract at deployment.
C18_OwnerStaysDeployer == owner = Deployer

\* ether in the model: the contract's and every account's
TotalEther ==
    balance + wallets[Deployer] + wallets[Alice] + wallets[Bob] + wallets[Charlie]
            + wallets[TestContract]

\* ether is conserved, and a send adds exactly its value when it goes
\* through and nothing when it fails
SendsAccounted ==
    /\ TotalEther = Cardinality(Accounts) * Funds
    /\ \A s \in Accounts, r \in Addresses, c \in DirectContents, p \in BOOLEAN, v \in Values :
          LET res == SendMessageCall(s, r, c, p, v)
          IN  /\ res.balance = balance + (IF res.err = "ok" THEN v ELSE 0)
              /\ res.wallets[s] = wallets[s] - (IF res.err = "ok" THEN v ELSE 0)

\* withdrawFees called by the owner goes through, pays the whole balance to
\* the owner and leaves the balance at 0
OwnerWithdrawsAll ==
    /\ owner # ZeroAddress =>
          LET paid == WithdrawFeesCall(owner)
          IN  /\ paid.err = "ok"
              /\ paid.balance = 0
              /\ paid.wallets[owner] = wallets[owner] + balance
              /\ \A a \in DOMAIN wallets \ {owner} : paid.wallets[a] = wallets[a]
    /\ ret = Ret("withdrawFees", "ok") => balance = 0

\* withdrawFees called by the owner pays the whole balance to an owner that
\* accepts ether and leaves the balance at 0; for an owner that does not, it
\* fails with "Transfer failed" and moves nothing
OwnerWithdrawsAllOrNothing ==
    /\ owner # ZeroAddress =>
          LET paid == WithdrawFeesCall(owner)
          IN  IF AcceptsEther(owner)
              THEN /\ paid.err = "ok"
                   /\ paid.balance = 0
                   /\ paid.wallets[owner] = wallets[owner] + balance
                   /\ \A a \in DOMAIN wallets \ {owner} : paid.wallets[a] = wallets[a]
              ELSE /\ paid.err = "Transfer failed"
                   /\ paid.balance = balance
                   /\ paid.wallets = wallets
    /\ ret = Ret("withdrawFees", "ok") => balance = 0

\* a step that moves the balance is a send that went through and raised it
\* or a withdrawal that went through and emptied it
BalanceMovedBySendOrWithdrawal ==
    balance' # balance =>
        \/ ret' = Ret("sendMessage", "ok") /\ balance' > balance
        \/ ret' = Ret("withdrawFees", "ok") /\ balance' = 0

\* a step lowers the balance only as a withdrawal that went through and
\* emptied it, and a send raises it only when it went through
BalanceLoweredByWithdrawal ==
    /\ balance' < balance => ret' = Ret("withdrawFees", "ok") /\ balance' = 0
    /\ (ret'.op = "sendMessage" /\ ret'.err # "ok") => balance' = balance

C20_PermanentMessageImmutable ==
    \A i \in 1..Len(ConversationEvents) :
        LET e == ConversationEvents[i]
        IN  e.isPermanent =>
              \A caller \in {e.sender, e.recipient} :
                  /\ GetMessageCall(caller, e.messageId).err = "ok"
                  /\ GetMessageCall(caller, e.messageId).out =
                        [sender |-> e.sender, recipient |-> e.recipient,
                         encryptedContent |-> e.encryptedContent,
                         timestamp |-> e.timestamp, isPermanent |-> TRUE]

C20_Witness ==
    /\ ret = Ret("getMessage", "ok")
    /\ Len(ConversationEvents) = MaxMessages
    /\ \A i \in 1..Len(ConversationEvents) : ConversationEvents[i].isPermanent
    /\ ConversationEvents[1].timestamp = 0
    /\ now = MaxTime
    /\ ~IsRegistered(ConversationEvents[1].sender)
    /\ permanentMessageFee # InitialFee
    /\ balance < MaxMessages * InitialFee

(***************************************************************************)
(* Properties of the message index and the counter                         *)
(***************************************************************************)
\* C21: getMessage fails with MessageNotFound, for every caller, on every id
\* under which no permanent record exists; the id of every ephemeral send
\* is such an id, because an ephemeral send writes no record and appends
\* to no per-user list.
C21_UnstoredIdNotFound ==
    /\ \A caller \in Accounts \cup {Deployer}, id \in KnownIds :
          id \notin DOMAIN permanentMessages =>
              /\ GetMessageCall(caller, id).err = "MessageNotFound"
              /\ GetMessageCall(caller, id).out = ZeroMessage
    /\ \A i \in 1..Len(ConversationEvents) :
          LET e == ConversationEvents[i]
          IN  ~e.isPermanent =>
                /\ e.messageId \notin DOMAIN permanentMessages
                /\ \A x \in Addresses :
                      \A j \in 1..Len(userPermanentMessages[x]) :
                          userPermanentMessages[x][j] # e.messageId
    /\ \A s \in Accounts, r \in Addresses, c \in DirectContents, v \in Values :
          LET res == SendMessageCall(s, r, c, FALSE, v)
          IN  /\ res.permanentMessages = permanentMessages
              /\ res.userPermanentMessages = userPermanentMessages

C21_Witness ==
    /\ ret = Ret("getMessage", "MessageNotFound")
    /\ Len(ConversationEvents) = 2
    /\ ~ConversationEvents[1].isPermanent
    /\ ConversationEvents[2].isPermanent
    /\ GetMessageCall(ConversationEvents[1].sender, ConversationEvents[1].messageId).err
          = "MessageNotFound"
    /\ GetMessageCall(ConversationEvents[2].sender, ConversationEvents[2].messageId).err = "ok"

IsPrefix(s, t) == Len(s) <= Len(t) /\ SubSeq(t, 1, Len(s)) = s

RECURSIVE IdsInvolving(_, _)
\* the ids of the first n logged sends that are permanent, once for x as
\* sender and once for x as recipient, in log order
IdsInvolving(x, n) ==
    IF n = 0 THEN <<>>
    ELSE LET e == ConversationEvents[n]
         IN  IdsInvolving(x, n - 1)
             \o (IF e.isPermanent /\ e.sender = x THEN <<e.messageId>> ELSE <<>>)
             \o (IF e.isPermanent /\ e.recipient = x THEN <<e.messageId>> ELSE <<>>)

ListsInSendOrder ==
    \A x \in Addresses :
        GetUserPermanentMessagesCall(x).out = IdsInvolving(x, Len(ConversationEvents))

ListsGrowAtTheEnd ==
    \A x \in Addresses : IsPrefix(userPermanentMessages[x], userPermanentMessages'[x])

\* C22: getUserPermanentMessages(X) is append-only in insertion order: in
\* every step the list of every account before the step is a prefix of the
\* list after it, and the list holds the ids of the permanent sends
\* involving X in the order in which they were applied.
C22_ListsAppendOnly == []ListsInSendOrder /\ [][ListsGrowAtTheEnd]_vars

C22_Witness ==
    /\ Len(ConversationEvents) = 2
    /\ ConversationEvents[1].sender = Alice /\ ConversationEvents[1].recipient = Alice
    /\ ConversationEvents[2].sender = Bob /\ ConversationEvents[2].recipient = Alice
    /\ userPermanentMessages[Alice]
          = <<ConversationEvents[1].messageId, ConversationEvents[1].messageId,
              ConversationEvents[2].messageId>>
    /\ userPermanentMessages[Bob] = <<ConversationEvents[2].messageId>>
    /\ ret = Ret("getUserPermanentMessages", "ok")

CounterCountsSends ==
    /\ messageCounter = Len(ConversationEvents)
    /\ \A s \in Accounts, r \in Addresses, c \in DirectContents, p \in BOOLEAN, v \in Values :
          LET res == SendMessageCall(s, r, c, p, v)
          IN  res.messageCounter = messageCounter + (IF res.err = "ok" THEN 1 ELSE 0)

CounterMovesOnSendsOnly ==
    /\ (ret'.op = "sendMessage" /\ ret'.err = "ok") => messageCounter' = messageCounter + 1
    /\ ~(ret'.op = "sendMessage" /\ ret'.err = "ok") => messageCounter' = messageCounter

\* C23: messageCounter starts at 0, goes up by exactly 1 on every
\* successful sendMessage, ephemeral or permanent, and is unchanged by a
\* failed sendMessage and by every other operation; in every reachable
\* state it is the number of conversation events emitted.
C23_CounterCountsSends ==
    /\ messageCounter = 0
    /\ []CounterCountsSends
    /\ [][CounterMovesOnSendsOnly]_vars

C23_Witness ==
    /\ messageCounter = MaxMessages
    /\ Len(ConversationEvents) = MaxMessages
    /\ ConversationEvents[1].isPermanent /\ ~ConversationEvents[2].isPermanent
    /\ ret = Ret("withdrawFees", "ok")
    /\ owner # Deployer
    /\ balance = 0

(***************************************************************************)
(* Properties of conversation loading                                      *)
(***************************************************************************)
\* the last step was a load that reached setMessages
Loaded == ret.op \in {"loadMessages", "retryLoading"} /\ ret.err = "ok"

\* what the conversation query of the last load returned
Returned == io.returned

\* the component of the account whose handler ran last
Shown ==
    LET component == IF io.account \in Accounts THEN view[io.account] ELSE NoView
    IN  [account |-> io.account, contact |-> component.contact,
         messages |-> component.messages, rpcError |-> component.rpcError]

\* C24: a load produces exactly one transcript entry per event the
\* conversation query returned: an event whose decryption fails gives an
\* entry with the placeholder "[Failed to decrypt]", the load goes on and
\* the other events are decrypted; no event is left out.
C24_OneEntryPerEvent ==
    Loaded =>
        /\ Len(Shown.messages) = Len(Returned)
        /\ \A i \in 1..Len(Returned) :
              Cardinality({j \in 1..Len(Shown.messages) : Shown.messages[j].event = Returned[i]}) = 1
        /\ \A j \in 1..Len(Shown.messages) :
              LET m == Shown.messages[j]
                  d == DecryptMessage(m.event.encryptedContent, WalletKeys[Shown.account].privateKey)
              IN  /\ d.ok => m.decryptedContent = TextDecode(m.event.encryptedContent.pt)
                  /\ ~d.ok => m.decryptedContent = FailedToDecrypt
                  /\ m.isFromMe = (m.event.sender = Shown.account)

C24_Witness ==
    /\ Loaded
    /\ Len(Shown.messages) = 2
    /\ Shown.messages[1].decryptedContent = FailedToDecrypt
    /\ Shown.messages[2].decryptedContent \in Plaintexts
    /\ Shown.messages[1].isFromMe /\ ~Shown.messages[2].isFromMe

\* the first endpoint that answers, 0 when none does
FirstUp(up) ==
    IF \A i \in 1..Len(up) : ~up[i] THEN 0
    ELSE CHOOSE i \in 1..Len(up) : up[i] /\ \A j \in 1..(i - 1) : ~up[j]

\* the clients `up` were asked in their order up to the first that answered
AskedInRankedOrder(q, up) ==
    LET first == FirstUp(up)
    IN  IF first = 0
        THEN /\ q.queried = [k \in 1..Len(up) |-> k]
             /\ q.answered = 0
        ELSE /\ q.queried = [k \in 1..first |-> k]
             /\ q.answered = first

\* the outcome of a read over the clients `up` of the logs `logs`
InRankedOrder(q, up, logs) ==
    /\ AskedInRankedOrder(q, up)
    /\ q.out = IF FirstUp(up) = 0 THEN <<>> ELSE logs

\* C25: the conversation read tries the read endpoints in their order,
\* returns the result of the first endpoint that answers without querying
\* a later one and, when every endpoint fails, returns an empty result and
\* no failure; getMessageEvents asks the primary endpoint and then the
\* same endpoints in the same way.  The conversation read is checked on the
\* ledger of every state in which a load has just read, for every outcome
\* of the endpoints, and on what each load of the sessions asked and got.
C25_FirstAnswerWins ==
    /\ ret.op = "getConversationMessages" =>
          /\ \A a \in Senders, c \in SessionContacts :
                LET logs == GetConversationMessages(a, c)
                IN  \A up \in EndpointOutcomes :
                        InRankedOrder(QueryConversation(a, c, up, LogOrder(Len(logs))), up, logs)
          /\ \A primaryUp \in BOOLEAN, up \in EndpointOutcomes :
                AskedInRankedOrder(GetMessageEvents(io.account, primaryUp, up),
                                   <<primaryUp>> \o up)
          /\ io.queried = [k \in 1..Len(io.queried) |-> k]
          /\ io.answered \in {0, Len(io.queried)}
          /\ io.answered = 0 => Len(io.queried) = Endpoints /\ io.returned = <<>>
          /\ io.answered # 0 =>
                \E c \in SessionContacts : io.returned = GetConversationMessages(io.account, c)
    /\ ret.op \in {"loadMessages", "retryLoading"} =>
          /\ io.queried = [k \in 1..Len(io.queried) |-> k]
          /\ io.answered \in {0, Len(io.queried)}
          /\ io.answered = 0 => Len(io.queried) = Endpoints
          /\ (io.answered = 0 /\ ret.err = "ok") => Shown.messages = <<>>

C25_Witness ==
    /\ Loaded
    /\ io.queried = <<1, 2, 3>>
    /\ io.answered = 3
    /\ Len(Shown.messages) = MaxMessages

\* C26: when every read endpoint fails during a load, the load ends showing
\* no messages and with rpcError set.
C26_EndpointFailureFlagged ==
    (ret.op = "loadMessages" /\ io.answered = 0) =>
        Shown.messages = <<>> /\ Shown.rpcError

(***************************************************************************)
(* Properties of key derivation                                            *)
(***************************************************************************)
\* deriveEncryptionKeys gives one key material per account, whichever
\* request was signed, and the key material is that of the signature
DerivationDeterministic ==
    /\ \A a \in Accounts :
          /\ DerivedKeys[a, "text"].keys = DerivedKeys[a, "hex"].keys
          /\ DerivedKeys[a, "hex"].keys = DeriveEncryptionKeys(a)
          /\ Len(DeriveEncryptionKeys(a).privateKey) = KeyBytes
          /\ DerivedKeys[a, "hex"].requests = <<"text", "hex">>
    /\ \A a \in Accounts, b \in Accounts, f \in SignOutcomes \ {"refused"},
          g \in SignOutcomes \ {"refused"} :
          DerivedKeys[a, f].signature = DerivedKeys[b, g].signature =>
              DerivedKeys[a, f].keys = DerivedKeys[b, g].keys
    /\ \A a \in Accounts, f \in SignOutcomes \ {"refused"} :
          DerivedKeys[a, f].keys = KeysFromSignature(DerivedKeys[a, f].signature)

\* the same with another deterministic wallet, whose signatures and keys
\* are others
DeterministicWithOtherWallet ==
    \A a \in Senders :
        LET text == DeriveEncryptionKeysWith(OtherWalletSign, a, "text")
            hex == DeriveEncryptionKeysWith(OtherWalletSign, a, "hex")
        IN  /\ text.keys = hex.keys
            /\ text.keys = KeysFromSignature(text.signature)
            /\ text.signature # DerivedKeys[a, "text"].signature
            /\ text.keys # DerivedKeys[a, "text"].keys

\* C28: with a signing oracle that is deterministic per account and
\* message, deriveEncryptionKeys returns the same key material on every
\* call for an account, also when the first personal_sign fails and the
\* hex-encoded retry is signed; the key material is determined by the
\* signature alone.  In a session every derivation of an account, by
\* whichever request, yields one key material, and handleRegister computes
\* one record from it.
C28_DerivationDeterministic ==
    /\ DerivationDeterministic
    /\ DeterministicWithOtherWallet
    /\ \A a \in Accounts, f \in SignOutcomes \ {"refused"} :
          keyring[a, f].keys = DerivedKeys[a, "text"].keys
    /\ \A i \in 1..Len(inflight.registers) :
          inflight.registers[i].step = "signing" =>
              inflight.registers[i].publicKey
                  = RegistrationRecords[inflight.registers[i].account]

\* handleRegister of Alice, who loaded a conversation before, derived her
\* key through the hex-encoded retry; Bob has registered the record of the
\* key he derived
C28_Witness ==
    /\ ret = Ret("deriveEncryptionKeys", "ok")
    /\ io.account = Alice
    /\ io.signed = <<"text", "hex">>
    /\ view[Alice].contact # <<>>
    /\ \E i \in 1..Len(inflight.registers) :
          /\ inflight.registers[i].account = Alice
          /\ inflight.registers[i].step = "signing"
          /\ inflight.registers[i].signed = <<"text", "hex">>
          /\ inflight.registers[i].publicKey = RegistrationRecords[Alice]
    /\ messagingPublicKeys[Bob] = RegistrationRecords[Bob]

\* a step in which an account whose component shows a conversation it
\* loaded, and so derived its key before, goes on from deriveEncryptionKeys
\* in a load or in a send
SameAccountAgain ==
    /\ ret'.op \in {"loadMessages", "retryLoading", "encryptMessage"}
    /\ ret'.err = "ok"
    /\ io'.account \in Accounts
    /\ view[io'.account].contact # <<>>
    /\ <<ret, io, view, inflight>>' # <<ret, io, view, inflight>>

\* C29: key derivation is memoized per account and session: over any loads
\* and sends of one account the signing oracle is asked at most once, and
\* later operations reuse the key.
C29_KeyDerivedOnce == [][SameAccountAgain => io'.signed = <<>>]_vars

(***************************************************************************)
(* Properties of the key wire format                                       *)
(***************************************************************************)
\* C27: for every 32-byte key K that is not all zero, registering
\* publicKeyToHex(K) through the client and reading it back through
\* getPublicKey and the send path's hex parsing gives exactly the 32 bytes
\* of K.
C27_KeyWireRoundTrip ==
    /\ \A k \in WireKeys : WireRecords[k] = k
    /\ \A x \in Senders :
          messagingPublicKeys[x] # Bytes32Zero =>
              ParseHexPairs(ClientGetPublicKey(x)) = messagingPublicKeys[x]

(***************************************************************************)
(* Properties of the transcript order                                      *)
(***************************************************************************)
\* the place of an event in the transcript shown
PlaceOf(event) == CHOOSE j \in 1..Len(Shown.messages) : Shown.messages[j].event = event

\* C30: the transcript a load shows is a permutation of the entries of the
\* events the query returned, ordered by non-decreasing timestamp whatever
\* the order of the query; entries with equal timestamps keep their order
\* in the query result.
C30_TranscriptSorted ==
    Loaded =>
        /\ Len(Shown.messages) = Len(Returned)
        /\ \A i \in 1..Len(Returned) :
              \E j \in 1..Len(Shown.messages) :
                  Shown.messages[j]
                      = TranscriptEntry(Shown.account, Returned[i], WalletKeys[Shown.account].privateKey)
        /\ \A j \in 1..(Len(Shown.messages) - 1) :
              Shown.messages[j].event.timestamp <= Shown.messages[j + 1].event.timestamp
        /\ \A i \in 1..Len(Returned) : \A k \in (i + 1)..Len(Returned) :
              Returned[i].timestamp = Returned[k].timestamp =>
                  PlaceOf(Returned[i]) < PlaceOf(Returned[k])

C30_Witness ==
    /\ Loaded
    /\ Len(Returned) = MaxMessages
    /\ Returned[1].timestamp > Returned[MaxMessages].timestamp
    /\ Shown.messages[1].event = Returned[MaxMessages]
    /\ Shown.messages[MaxMessages].event = Returned[1]

(***************************************************************************)
(* Properties of the event log as the client reads it                      *)
(***************************************************************************)
\* the sends the ledger recorded with user as sender or recipient
SentOrReceived(user) ==
    SelectSeq(events, LAMBDA e : /\ e.name \notin {"PermanentMessageStored", "PublicKeyRegistered"}
                                 /\ (e.sender = user \/ e.recipient = user))

\* C31: every successful sendMessage emits a MessageSent event carrying the
\* message's fields, and getMessageEvents(user), with every endpoint
\* answering, returns each message sent or received by user exactly once.
C31_MessageSentReachesClient ==
    /\ \A i \in 1..Len(events) :
          events[i].name \in {"MessageSent", "PermanentMessageStored", "PublicKeyRegistered"}
    /\ \A a \in Senders :
          LET got == GetMessageEvents(a, TRUE, AllUp).out
              sent == SentOrReceived(a)
          IN  \A i \in 1..Len(sent) :
                 Cardinality({j \in 1..Len(got) : got[j].messageId = sent[i].messageId}) = 1

(***************************************************************************)
(* Properties of the order of sendMessage's checks                         *)
(***************************************************************************)
\* C32: sendMessage reports the first failing check in the order sender
\* registration, recipient registration, fee: with both parties
\* unregistered the error is the sender's NotRegistered, and with the sender
\* registered, the recipient not, and the fee of a permanent send
\* insufficient, the error is RecipientNotRegistered, never InsufficientFee.
C32_FirstFailingCheckReported ==
    \A s \in Senders, r \in Recipients, c \in DirectContents, a \in SendArgs :
        LET err == SendMessageCall(s, r, c, a[1], a[2]).err
            short == a[1] /\ a[2] < permanentMessageFee
        IN  /\ ~IsRegistered(s) => err = "NotRegistered"
            /\ (IsRegistered(s) /\ ~IsRegistered(r)) => err = "RecipientNotRegistered"
            /\ (IsRegistered(s) /\ IsRegistered(r) /\ short) => err = "InsufficientFee"
            /\ (IsRegistered(s) /\ IsRegistered(r) /\ ~short) => err = "ok"

C32_Witness ==
    /\ ret = Ret("sendMessage", "RecipientNotRegistered")
    /\ permanentMessageFee > 0
    /\ \E s \in Senders, r \in Senders :
          /\ IsRegistered(s) /\ ~IsRegistered(r)
          /\ InsufficientFee(TRUE, 0)
          /\ SendMessageCall(s, r, TextContent("encrypted_message"), TRUE, 0).err
                = "RecipientNotRegistered"
          /\ SendMessageCall(r, s, TextContent("encrypted_message"), TRUE, 0).err
                = "NotRegistered"

(***************************************************************************)
(* Properties of decryptMessage's failure                                  *)
(***************************************************************************)
\* what decryptMessage throws when the run's payload, as encryptMessage
\* wrote it, is read under a key other than its own
WrongKeyError(k) ==
    Opened(EncryptMessage(cipher.message, cipher.key, cipher.payload.iv), k).err

\* C33: a failing decryptMessage has the same outcome for a wrong key, a
\* tampered ciphertext and a malformed or truncated payload: the error
\* thrown is the one a wrong key gives, and no text is returned.
C33_FailureCauseHidden ==
    (ret.op = "decryptMessage" /\ ret.err # "ok") =>
        /\ cipher.text = <<>>
        /\ \A k \in {WalletKeys[a].privateKey : a \in Accounts} \ {cipher.key} :
              ret.err = WrongKeyError(k)

(***************************************************************************)
(* Frame of the registry                                                   *)
(***************************************************************************)
\* a step's effect on the registry and a registration's effect on the rest
RegistryFrame ==
    /\ \A x \in Addresses :
          messagingPublicKeys'[x] # messagingPublicKeys[x] =>
              /\ \E k \in DirectKeys : RegisterPublicKey(x, k)
              /\ \A y \in Addresses \ {x} : messagingPublicKeys'[y] = messagingPublicKeys[y]
    /\ ret'.op = "registerPublicKey" =>
          /\ UNCHANGED <<messageCounter, permanentMessageFee, permanentMessages,
                         userPermanentMessages, owner, handovers, balance>>
          \* the log gains the call's PublicKeyRegistered entry and nothing else
          /\ \/ events' = events
             \/ \E x \in Accounts :
                   events' = Append(events, PublicKeyRegistered(x, messagingPublicKeys'[x]))
    /\ ret'.op \in {"sendMessage", "getMessage", "setPermanentMessageFee", "withdrawFees"} =>
          UNCHANGED messagingPublicKeys

\* C34: X's registry record changes only in a registerPublicKey call made
\* by X; that call leaves every other account's record, messageCounter,
\* permanentMessageFee, the permanent storage and every per-user list as
\* they were; sendMessage, getMessage, setPermanentMessageFee and
\* withdrawFees change no registry record.
C34_RegistryFrame == [][RegistryFrame]_vars

C34_Witness ==
    /\ ret = Ret("registerPublicKey", "ok")
    /\ ~IsRegistered(Alice) /\ IsRegistered(Bob)
    /\ messageCounter = MaxMessages
    /\ Len(userPermanentMessages[Alice]) > 0
    /\ balance = 0

(***************************************************************************)
(* Properties of the permanent-message index                               *)
(***************************************************************************)
\* C35: in every reachable state no MessageId occurs more than once in any
\* account's permanent-message list, also after permanent sends whose
\* sender and recipient are the same account.
C35_ListsWithoutDuplicates ==
    \A x \in Addresses :
        LET list == GetUserPermanentMessagesCall(x).out
        IN  \A i, j \in 1..Len(list) : list[i] = list[j] => i = j

\* the ids in account x's permanent-message list
ListedIds(x) ==
    LET list == GetUserPermanentMessagesCall(x).out
    IN  {list[i] : i \in 1..Len(list)}

\* the ids under which a permanent record exists
StoredIds == {id \in DOMAIN permanentMessages : ~NotFound(MessageAt(permanentMessages, id))}

\* C36: storage and index agree in every reachable state: an id is in
\* account X's permanent-message list exactly when a permanent record
\* exists under it whose sender or recipient is X, and every permanent
\* record has a conversation event with the same id, sender, recipient and
\* content and isPermanent = true.
C36_StorageAndIndexAgree ==
    /\ \A x \in Addresses :
          ListedIds(x) = {id \in StoredIds : \/ permanentMessages[id].sender = x
                                             \/ permanentMessages[id].recipient = x}
    /\ \A id \in StoredIds :
          \E i \in 1..Len(ConversationEvents) :
              LET e == ConversationEvents[i]
                  m == permanentMessages[id]
              IN  /\ e.messageId = id
                  /\ e.sender = m.sender
                  /\ e.recipient = m.recipient
                  /\ e.encryptedContent = m.encryptedContent
                  /\ e.isPermanent /\ m.isPermanent

C36_Witness ==
    /\ messageCounter = MaxMessages
    /\ Cardinality(StoredIds) = MaxMessages
    /\ Len(userPermanentMessages[Alice]) = MaxMessages + 1
    /\ Len(userPermanentMessages[Bob]) = 1
    /\ Cardinality(ListedIds(Alice)) = MaxMessages
    /\ Len(events) = Len(Registrations(events)) + 2 * MaxMessages

(***************************************************************************)
(* Properties of the client's fee read                                     *)
(***************************************************************************)
\* C37: a permanent send issued through the client's sendMessage between
\* registered accounts, which attaches the permanentMessageFee it read, is
\* never rejected with InsufficientFee, however the fee read and the
\* transaction's application interleave with setPermanentMessageFee: no
\* transaction the client submitted reverts with InsufficientFee when it is
\* mined.
C37_ReadFeeSuffices ==
    ret.op = "sendMessage" => ret.err # "InsufficientFee"

(***************************************************************************)
(* Properties of the displayed transcript                                  *)
(***************************************************************************)
\* no loadMessages is running and the loading flag is down
NoLoadInProgress ==
    /\ ~view[Alice].loading
    /\ \A i \in 1..Len(inflight.loads) :
          inflight.loads[i].account = Alice => inflight.loads[i].stage = "scheduled"

\* C38: whenever no conversation load is in progress, the displayed
\* transcript is that of the selected contact: every message shown belongs
\* to the conversation of the account with the contact selected now, under
\* every interleaving of contact selection, load completion and send.
C38_TranscriptOfSelectedContact ==
    (NoLoadInProgress /\ view[Alice].selected # <<>>) =>
        \A j \in 1..Len(view[Alice].messages) :
            view[Alice].messages[j].event.conversationHash
                = ConversationHashes[Alice, view[Alice].selected]

====
